---- MODULE Spec2Model ----
(***************************************************************************)
(* Lifecycle automation core of ml-newsletter-optimizer-fordevs.           *)
(*                                                                         *)
(* The Flow Execution Engine (lib/flows.ts) is modelled as a state machine *)
(* over the stores it reads and writes: FlowRun, Contact, Message,         *)
(* SegmentMembership, Suppression and OptimizerDecision.  Time is counted  *)
(* in minutes; instant 0 is a Sunday 00:00 UTC.                            *)
(*                                                                         *)
(* A tick (processDueFlowRuns) is a process: it loads its batch, then      *)
(* processes one loaded run per step, then returns its summary.  Every     *)
(* await of the tick is a point where other handlers (event ingestion,     *)
(* webhooks, membership recomputation, and in SpecOverlap a second tick)   *)
(* may run.                                                                *)
(***************************************************************************)
EXTENDS Integers, Sequences, FiniteSets, TLC

VARIABLES runs, contacts, membership, messages, suppressions, decisions,
          tick, dispatches, attempts, optimizerCalls, budget,
          sweep, evaluations, optimizerState, walker, clock

vars == <<runs, contacts, membership, messages, suppressions, decisions,
          tick, dispatches, attempts, optimizerCalls, budget,
          sweep, evaluations, optimizerState, walker, clock>>

\* The stores and processes the flow engine and its collaborators leave alone.
others == <<sweep, evaluations, optimizerState, walker, clock>>

----------------------------------------------------------------------------
(* Bounds of the model *)

MaxRuns == 1
BatchRuns == 2
OverlapRuns == 1
MaxTicks == 2
MaxWebhooks == 1
MaxContacts == 3
ExclusionTicks == 1
MaxSweeps == 1
MaxRecommendations == 1
ScoreSweeps == 1
SweepRuns == 2
TestListSweeps == 3
MaxSteps == 2
IngestRuns == 3
CacheRecommendations == 2
LiveRuns == 2
CooldownRuns == 2
CooldownTicks == 2
MaxClock == 45

(* Program constants, in minutes *)

SCHEDULE_THRESHOLD_MIN == 5
ONE_DAY_MIN == 1440
DefaultLimit == 20

Null == -999999
NoError == "none"

MinutesPerWeek == 7 * ONE_DAY_MIN

ContactIds == {1, 2}
TickProcs == {1, 2}
SegmentIds == {"s1"}

(* Inputs of the handlers *)
EventNames == {"signup", "purchase", "visit"}
EventTimes == {0}
TickTimes == {10, 57}
TickLimits == {Null, 1}
WallClockTimes == {75}
BestHours == {0, 1}
WebhookOutcomes == {"delivered", "bounced", "suppressed"}
TransportResults == {"ok", "ResendError"}

TerminalStatuses == {"COMPLETED", "CANCELLED", "FAILED"}
DueStatuses == {"PENDING", "WAITING"}

----------------------------------------------------------------------------
(* Flow definitions held by the Flow/Step store.  A step carries the typed *)
(* part of its JSON config: minutes (Null when the config has no numeric   *)
(* minutes) and segmentId ("" when the config has no non-empty segmentId). *)

Step(order, type, minutes, segmentId) ==
    [order |-> order, type |-> type, minutes |-> minutes, segmentId |-> segmentId]

Flows ==
    <<  \* 1: the flow of the tests: TRIGGER, DELAY(45), SEND_TEMPLATE
        [status |-> "ACTIVE", triggerEventName |-> "signup", delayMinutes |-> 45,
         segmentId |-> "", useOptimizer |-> FALSE,
         steps |-> << Step(1, "TRIGGER", Null, ""),
                      Step(2, "DELAY", 45, ""),
                      Step(3, "SEND_TEMPLATE", Null, "") >>],
        \* 2: gaps in the orders, a zero DELAY, a filter on s1, optimizer on
        [status |-> "ACTIVE", triggerEventName |-> "purchase", delayMinutes |-> 30,
         segmentId |-> "", useOptimizer |-> TRUE,
         steps |-> << Step(1, "TRIGGER", Null, ""),
                      Step(3, "DELAY", 0, ""),
                      Step(5, "SEGMENT_FILTER", Null, "s1"),
                      Step(8, "SEND_TEMPLATE", Null, "") >>],
        \* 3: DELAY and SEGMENT_FILTER resolved from the flow, no send step
        [status |-> "ACTIVE", triggerEventName |-> "visit", delayMinutes |-> 30,
         segmentId |-> "", useOptimizer |-> FALSE,
         steps |-> << Step(2, "DELAY", Null, ""),
                      Step(4, "SEGMENT_FILTER", Null, ""),
                      Step(6, "TRIGGER", Null, ""),
                      Step(7, "DELAY", -5, "") >>],
        \* 4: a draft flow, never triggered
        [status |-> "DRAFT", triggerEventName |-> "signup", delayMinutes |-> Null,
         segmentId |-> "", useOptimizer |-> TRUE,
         steps |-> << Step(1, "TRIGGER", Null, ""),
                      Step(2, "SEND_TEMPLATE", Null, "") >>],
        \* 5: an active flow with no action step
        [status |-> "ACTIVE", triggerEventName |-> "visit", delayMinutes |-> Null,
         segmentId |-> "", useOptimizer |-> TRUE,
         steps |-> << Step(1, "TRIGGER", Null, "") >>],
        \* 6: a paused flow, never triggered
        [status |-> "PAUSED", triggerEventName |-> "signup", delayMinutes |-> Null,
         segmentId |-> "", useOptimizer |-> FALSE,
         steps |-> << Step(1, "TRIGGER", Null, ""),
                      Step(2, "SEND_TEMPLATE", Null, "") >>],
        \* 7: a flow that ends with a DELAY
        [status |-> "ACTIVE", triggerEventName |-> "renewal", delayMinutes |-> Null,
         segmentId |-> "", useOptimizer |-> FALSE,
         steps |-> << Step(1, "TRIGGER", Null, ""),
                      Step(2, "DELAY", 15, "") >>]  >>

FlowIds == DOMAIN Flows

RunIds == DOMAIN runs

StepOrders(steps) == { steps[i].order : i \in DOMAIN steps }

StepAt(steps, pointer) == CHOOSE s \in { steps[i] : i \in DOMAIN steps } : s.order = pointer

Min(S) == CHOOSE x \in S : \A y \in S : x <= y

----------------------------------------------------------------------------
(* Pure helpers of lib/flows.ts *)

\* Variant that reads the step's minutes with || instead of a type test, so
\* that a configured 0 falls back to the flow's delay.
extractDelayMinutes_Truthy(step, fallback) ==
    IF step.minutes # Null /\ step.minutes # 0 THEN step.minutes
    ELSE IF fallback # Null THEN fallback ELSE 0

\* extractDelayMinutes: the step's numeric minutes when configured (also 0
\* or a negative number), else the flow's delayMinutes, else 0.
extractDelayMinutes(step, fallback) ==
    IF step.minutes # Null THEN step.minutes
    ELSE IF fallback # Null THEN fallback ELSE 0

\* Variant that only looks at the flow's segment.
extractSegmentId_FlowOnly(step, fallback) == fallback

\* extractSegmentId: the step's non-empty segmentId, else the flow's, else
\* none ("").
extractSegmentId(step, fallback) ==
    IF step.segmentId # "" THEN step.segmentId ELSE fallback

\* Variant without the sort: the first stored order greater than current.
getNextOrder_FirstStored(current, steps) ==
    LET candidates == { i \in DOMAIN steps : steps[i].order > current }
    IN  IF candidates = {} THEN current + 1
        ELSE steps[CHOOSE i \in candidates : \A j \in candidates : i <= j].order

\* getNextOrder: smallest order strictly greater than current, else current + 1.
getNextOrder(current, steps) ==
    LET candidates == { o \in StepOrders(steps) : o > current }
    IN  IF candidates = {} THEN current + 1 ELSE Min(candidates)

----------------------------------------------------------------------------
(* Pure helpers of lib/optimizer.ts *)

\* The offset Intl.DateTimeFormat applies for a contact's IANA zone (no DST
\* change inside the modelled window).
TzOffsetMinutes(timezone) ==
    CASE timezone = "America/New_York" -> -300
      [] timezone = "Europe/Berlin" -> 60
      [] OTHER -> 0

UTCDay(t) == (t \div ONE_DAY_MIN) % 7

StartOfUTCDay(t) == (t \div ONE_DAY_MIN) * ONE_DAY_MIN

\* getNextDateForHour: with a timezone the wall-clock reading of reference in
\* that zone is written into base as if it were UTC; the result is the next
\* occurrence of the weekday/hour strictly after base, and is returned as is.
getNextDateForHour(reference, hourOfWeekValue, timezone) ==
    LET base == IF timezone # "" THEN reference + TzOffsetMinutes(timezone) ELSE reference
        utcHour == hourOfWeekValue % 24
        dayOffset == hourOfWeekValue \div 24
        moved == base + ONE_DAY_MIN * ((dayOffset - UTCDay(base) + 7) % 7)
        result == StartOfUTCDay(moved) + utcHour * 60
    IN  IF result <= base THEN result + MinutesPerWeek ELSE result

\* recommendSendTime for a stored contact, given the hour pickBestHour chose
\* from the histograms: the 24h cooldown and the final instant.
recommendSendTime(contact, referenceDate, hour) ==
    IF contact.status # "ACTIVE"
    THEN [recommendedHour |-> Null, recommendedAt |-> Null, throttled |-> FALSE]
    ELSE LET first == getNextDateForHour(referenceDate, hour, contact.timezone)
             earliest == contact.lastMessageSentAt + ONE_DAY_MIN
             hasLast == contact.lastMessageSentAt # Null
         IN  [recommendedHour |-> hour,
              recommendedAt |->
                  IF hasLast /\ first < earliest
                  THEN getNextDateForHour(earliest, hour, contact.timezone)
                  ELSE first,
              throttled |-> hasLast /\ earliest > referenceDate]

----------------------------------------------------------------------------
(* processSingleRun: the step walk of one loaded run *)

WalkResult(kind, pointer, minutes, visited) ==
    [kind |-> kind, pointer |-> pointer, minutes |-> minutes, visited |-> visited]

\* The while(true) loop of processSingleRun, from a pointer to the step at
\* which the loop returns.  visited lists the orders of the steps the loop
\* has looked at.  Membership is read from the store at each filter step.
RECURSIVE walk(_, _, _, _)
walk(flow, contactId, pointer, visited) ==
    IF pointer \notin StepOrders(flow.steps)
    THEN WalkResult("end", pointer, 0, visited)
    ELSE LET step == StepAt(flow.steps, pointer)
             seen == Append(visited, pointer)
             next == getNextOrder(pointer, flow.steps)
         IN  CASE step.type = "DELAY" ->
                    LET minutes == extractDelayMinutes(step, flow.delayMinutes)
                    IN  IF minutes <= 0
                        THEN walk(flow, contactId, next, seen)
                        ELSE WalkResult("delay", pointer, minutes, seen)
               [] step.type = "SEGMENT_FILTER" ->
                    LET segmentId == extractSegmentId(step, flow.segmentId)
                    IN  IF segmentId # "" /\ <<segmentId, contactId>> \notin membership
                        THEN WalkResult("filtered", pointer, 0, seen)
                        ELSE walk(flow, contactId, next, seen)
               [] step.type = "SEND_TEMPLATE" ->
                    WalkResult("send", pointer, 0, seen)
               [] OTHER -> walk(flow, contactId, next, seen)

\* Variant that adds the minutes as milliseconds: no delay at this resolution.
delayedUntil_Millis(now, minutes) == now

\* Variant with the exclusion list of the broadcast sender.
sendBlockedReason_ExcludedOnly(contact) ==
    IF ~contact.email THEN "Contact missing email"
    ELSE IF contact.status \in {"SUPPRESSED", "COMPLAINED"}
         THEN "Contact status is " \o contact.status
    ELSE ""

\* new Date(now.getTime() + minutes * 60 * 1000), in minutes
delayedUntil(now, minutes) == now + minutes

\* The eligibility check that opens executeSendStep: the reason for which the
\* loaded contact cannot be mailed, "" when it can.
sendBlockedReason(contact) ==
    IF ~contact.email THEN "Contact missing email"
    ELSE IF contact.status # "ACTIVE" THEN "Contact status is " \o contact.status
    ELSE ""

\* Variant that does not connect the message to its flow run.
Message_Unlinked(contact, run, status, scheduledSendAt, sentAt) ==
    [contact |-> contact, run |-> 0, status |-> status,
     scheduledSendAt |-> scheduledSendAt, sentAt |-> sentAt,
     hasResendId |-> (status = "SENT"), lastEvent |-> "", clickedAt |-> Null]

Message(contact, run, status, scheduledSendAt, sentAt) ==
    [contact |-> contact, run |-> run, status |-> status,
     scheduledSendAt |-> scheduledSendAt, sentAt |-> sentAt,
     hasResendId |-> (status = "SENT"), lastEvent |-> "", clickedAt |-> Null]

\* The Message table allows one message per flow run (FlowRun.message is a
\* to-one relation): a second create for the same run is rejected.
MessageExistsForRun(run) == \E i \in DOMAIN messages : messages[i].run = run

UniqueViolation == "Unique constraint failed on the fields: (flowRunId)"

TransportErrorMessage(result) ==
    IF result = "ResendError" THEN "Resend service returned an error" ELSE "fetch failed"

\* Variant in which an instant computed before the call failed is still used.
RecommendationOptions_KeepOnFailure(L, now) ==
    IF ~Flows[L.flow].useOptimizer
    THEN { [called |-> 0, at |-> Null, log |-> << >>] }
    ELSE { [called |-> 1, at |-> recommendSendTime(contacts[L.contactId], now, hour).recommendedAt,
            log |-> << >>] : hour \in BestHours } \cup
         { LET rec == recommendSendTime(contacts[L.contactId], now, hour)
           IN  [called |-> 1, at |-> rec.recommendedAt,
                log |-> IF rec.recommendedHour = Null THEN << >>
                        ELSE << [contact |-> L.contactId, recommendedHour |-> hour,
                                 throttled |-> rec.throttled,
                                 recommendedAt |-> rec.recommendedAt] >>]
           : hour \in BestHours }

\* What the optimizer call of a send step can give: not called, a thrown
\* error (swallowed), or the recommendation for the stored contact with the
\* OptimizerDecision row it persists.
RecommendationOptions(L, now) ==
    IF ~Flows[L.flow].useOptimizer
    THEN { [called |-> 0, at |-> Null, log |-> << >>] }
    ELSE { [called |-> 1, at |-> Null, log |-> << >>] } \cup
         { LET rec == recommendSendTime(contacts[L.contactId], now, hour)
           IN  [called |-> 1, at |-> rec.recommendedAt,
                log |-> IF rec.recommendedHour = Null THEN << >>
                        ELSE << [contact |-> L.contactId, recommendedHour |-> hour,
                                 throttled |-> rec.throttled,
                                 recommendedAt |-> rec.recommendedAt] >>]
           : hour \in BestHours }

\* Variant that schedules any recommendation that lies after now.
shouldSchedule_AnyFuture(recommendedAt, now) ==
    recommendedAt # Null /\ recommendedAt - now > 0

\* Boolean(recommendedAt && recommendedAt - now > SCHEDULE_THRESHOLD_MS)
shouldSchedule(recommendedAt, now) ==
    recommendedAt # Null /\ recommendedAt - now > SCHEDULE_THRESHOLD_MIN

Outcome(run, msgs, cts, decs, sent, optimizer, attempt, result, error, visited) ==
    [run |-> run, messages |-> msgs, contacts |-> cts, decisions |-> decs,
     sent |-> sent, optimizer |-> optimizer, attempt |-> attempt,
     result |-> result, error |-> error, visited |-> visited]

\* executeSendStep for a loaded run: the set of outcomes it can have.
executeSendStep(L, now, visited) ==
    LET stored == runs[L.id]
        contact == L.contact
        steps == Flows[L.flow].steps
        completedRun == [stored EXCEPT !.status = "COMPLETED", !.completedAt = now,
                                       !.nextStepOrder = getNextOrder(L.nextStepOrder, steps)]
        failedRun(msg) == [stored EXCEPT !.status = "FAILED", !.cancelledReason = msg]
    IN  IF sendBlockedReason(contact) # ""
        THEN { Outcome([stored EXCEPT !.status = "CANCELLED",
                                      !.cancelledReason = sendBlockedReason(contact),
                                      !.completedAt = now],
                       messages, contacts, decisions, 0, 0, 1, "completed", NoError, visited) }
        ELSE UNION {
            LET decs == decisions \o rec.log
            IN  IF shouldSchedule(rec.at, now)
                THEN IF MessageExistsForRun(L.id)
                     THEN { Outcome(stored, messages, contacts, decs, 0, rec.called, 1,
                                    "thrown", UniqueViolation, visited) }
                     ELSE { Outcome(completedRun,
                                    Append(messages, Message(L.contactId, L.id, "SCHEDULED", rec.at, Null)),
                                    contacts, decs, 0, rec.called, 1, "completed", NoError, visited) }
                ELSE UNION {
                    IF transport # "ok"
                    THEN { Outcome(failedRun(TransportErrorMessage(transport)), messages, contacts,
                                   decs, 1, rec.called, 1, "thrown",
                                   TransportErrorMessage(transport), visited) }
                    ELSE IF MessageExistsForRun(L.id)
                    THEN { Outcome(failedRun(UniqueViolation), messages, contacts,
                                   decs, 1, rec.called, 1, "thrown", UniqueViolation, visited) }
                    ELSE { Outcome(completedRun,
                                   Append(messages, Message(L.contactId, L.id, "SENT", Null, sentAt)),
                                   [contacts EXCEPT ![L.contactId].lastMessageSentAt = sentAt],
                                   decs, 1, rec.called, 1, "completed", NoError, visited)
                           : sentAt \in WallClockTimes }
                    : transport \in TransportResults }
            : rec \in RecommendationOptions(L, now) }

\* Variant that, at the end of the steps, stores the pointer the run was
\* loaded with.
processSingleRun_LoadedPointer(L, now) ==
    LET stored == runs[L.id]
        flow == Flows[L.flow]
        w == walk(flow, L.contactId, L.nextStepOrder, << >>)
    IN  CASE w.kind = "end" ->
               { Outcome([stored EXCEPT !.status = "COMPLETED", !.completedAt = now,
                                        !.nextStepOrder = L.nextStepOrder],
                         messages, contacts, decisions, 0, 0, 0, "completed", NoError, w.visited) }
          [] w.kind = "delay" ->
               { Outcome([stored EXCEPT !.status = "WAITING",
                                        !.scheduledAt = delayedUntil(now, w.minutes),
                                        !.nextStepOrder = getNextOrder(w.pointer, flow.steps)],
                         messages, contacts, decisions, 0, 0, 0, "rescheduled", NoError, w.visited) }
          [] w.kind = "filtered" ->
               { Outcome([stored EXCEPT !.status = "CANCELLED",
                                        !.cancelledReason = "Contact no longer in segment",
                                        !.completedAt = now,
                                        !.nextStepOrder = w.pointer],
                         messages, contacts, decisions, 0, 0, 0, "cancelled", NoError, w.visited) }
          [] OTHER -> executeSendStep(L, now, w.visited)

\* processSingleRun for a loaded run: the set of outcomes it can have.
processSingleRun(L, now) ==
    LET stored == runs[L.id]
        flow == Flows[L.flow]
        w == walk(flow, L.contactId, L.nextStepOrder, << >>)
    IN  CASE w.kind = "end" ->
               { Outcome([stored EXCEPT !.status = "COMPLETED", !.completedAt = now,
                                        !.nextStepOrder = w.pointer],
                         messages, contacts, decisions, 0, 0, 0, "completed", NoError, w.visited) }
          [] w.kind = "delay" ->
               { Outcome([stored EXCEPT !.status = "WAITING",
                                        !.scheduledAt = delayedUntil(now, w.minutes),
                                        !.nextStepOrder = getNextOrder(w.pointer, flow.steps)],
                         messages, contacts, decisions, 0, 0, 0, "rescheduled", NoError, w.visited) }
          [] w.kind = "filtered" ->
               { Outcome([stored EXCEPT !.status = "CANCELLED",
                                        !.cancelledReason = "Contact no longer in segment",
                                        !.completedAt = now,
                                        !.nextStepOrder = w.pointer],
                         messages, contacts, decisions, 0, 0, 0, "cancelled", NoError, w.visited) }
          [] OTHER -> executeSendStep(L, now, w.visited)

----------------------------------------------------------------------------
(* State *)

\* A contact row.  propensity is in hundredths; a contact made here has no
\* tags, no engagement event, no propensity and no hygiene evaluation yet.
Contact(email, status, timezone, lastMessageSentAt) ==
    [email |-> email, status |-> status, timezone |-> timezone,
     lastMessageSentAt |-> lastMessageSentAt,
     tags |-> { }, lastEventAt |-> Null, propensity |-> Null,
     hygieneRiskLevel |-> "", hygieneScore |-> Null]

ZeroSweepSummary ==
    [evaluated |-> 0, highRisk |-> 0, mediumRisk |-> 0, lowRisk |-> 0,
     suppressionsCreated |-> 0, contactsSuppressed |-> 0]

\* No sweep is running; summary is what the last sweep returned.
IdleSweep ==
    [pc |-> "idle", now |-> Null, suppressHighRisk |-> "undefined",
     loaded |-> { }, contacts |-> << >>, suppressions |-> << >>,
     summary |-> ZeroSweepSummary]

\* The optimizer module after start-up: no histogram cache, no call made.
IdleOptimizer ==
    [histogramCache |-> << >>,
     last |-> [result |-> "none", contact |-> 0, recommendedHour |-> Null,
               recommendedAt |-> Null, score |-> [num |-> 0, den |-> 1],
               baselineScore |-> [num |-> 0, den |-> 1], reason |-> "", throttled |-> FALSE]]

\* No walk of a step list is under way.
IdleWalker ==
    [pc |-> "idle", flow |-> [steps |-> << >>, delayMinutes |-> Null, segmentId |-> ""],
     start |-> 0, pointer |-> 0, iterations |-> 0, visited |-> << >>]

ZeroSummary ==
    [evaluated |-> 0, completed |-> 0, rescheduled |-> 0, cancelled |-> 0, failed |-> 0]

NoLast == [run |-> 0, visited |-> << >>, result |-> "none", error |-> NoError]

IdleTick ==
    [pc |-> "idle", now |-> Null, limitOption |-> Null, limit |-> Null, batch |-> << >>, idx |-> 1,
     known |-> 0, summary |-> ZeroSummary, last |-> NoLast]

\* Segment s1 is defined by one status filter.
SegmentFilters(segmentId) == << [type |-> "status", value |-> "ACTIVE"] >>

\* Contact 1 lives in New York and was last mailed, by a broadcast, 1500
\* minutes before instant 0; contact 2 has bounced.  Segment s1 has not been
\* computed since contact 1 was imported.
Init ==
    /\ runs = << >>
    /\ contacts = [c \in ContactIds |->
                     IF c = 1 THEN Contact(TRUE, "ACTIVE", "America/New_York", -1500)
                     ELSE Contact(TRUE, "BOUNCED", "", Null)]
    /\ messages = << Message(1, 0, "SENT", Null, -1500) >>
    /\ membership = { }
    /\ suppressions = << >>
    /\ decisions = << >>
    /\ tick = [p \in TickProcs |-> IdleTick]
    /\ dispatches = << >>
    /\ attempts = << >>
    /\ optimizerCalls = 0
    /\ budget = [ticks |-> MaxTicks, webhooks |-> MaxWebhooks, sweeps |-> 0, recommendations |-> 0]
    /\ sweep = IdleSweep
    /\ evaluations = << >>
    /\ optimizerState = IdleOptimizer
    /\ walker = IdleWalker
    /\ clock = 0

----------------------------------------------------------------------------
(* Event ingestion *)

\* flow.steps.find(step => step.type !== TRIGGER) over the steps in order
FirstAction(flow) ==
    LET actions == { o \in StepOrders(flow.steps) : StepAt(flow.steps, o).type # "TRIGGER" }
    IN  IF actions = {} THEN Null ELSE Min(actions)

\* Variant of the flow query without the status filter.
MatchingFlows_AnyStatus(eventName) ==
    { f \in FlowIds : Flows[f].triggerEventName = eventName }

\* findMany(where status ACTIVE and triggerEventName)
MatchingFlows(eventName) ==
    { f \in FlowIds : Flows[f].status = "ACTIVE" /\ Flows[f].triggerEventName = eventName }

RECURSIVE createRuns(_, _, _, _)
createRuns(flows, contactId, at, acc) ==
    IF flows = {} THEN acc
    ELSE LET f == Min(flows)
             first == FirstAction(Flows[f])
         IN  createRuns(flows \ {f}, contactId, at,
                 IF first = Null THEN acc
                 ELSE Append(acc, [flow |-> f, contact |-> contactId, status |-> "PENDING",
                                   nextStepOrder |-> first, scheduledAt |-> at,
                                   completedAt |-> Null, cancelledReason |-> ""]))

\* The TriggerFlowSummary that triggerFlowsForEvent returns.
triggerFlowSummary(contactId, eventName) ==
    IF \/ contactId \notin DOMAIN contacts
       \/ ~contacts[contactId].email
       \/ contacts[contactId].status # "ACTIVE"
       \/ MatchingFlows(eventName) = { }
    THEN [createdRuns |-> 0, skippedFlows |-> 0]
    ELSE [createdRuns |->
              Cardinality({ f \in MatchingFlows(eventName) : FirstAction(Flows[f]) # Null }),
          skippedFlows |->
              Cardinality({ f \in MatchingFlows(eventName) : FirstAction(Flows[f]) = Null })]

triggerFlowsForEvent(contactId, eventName, occurredAt) ==
    LET contact == contacts[contactId]
        created == IF \/ contactId \notin DOMAIN contacts
                      \/ ~contact.email
                      \/ contact.status # "ACTIVE"
                   THEN runs
                   ELSE createRuns(MatchingFlows(eventName), contactId, occurredAt, runs)
    IN  /\ runs' = created
        /\ dispatches' = [r \in DOMAIN created |-> IF r \in DOMAIN runs THEN dispatches[r] ELSE 0]
        /\ attempts' = [r \in DOMAIN created |-> IF r \in DOMAIN runs THEN attempts[r] ELSE 0]
        /\ UNCHANGED <<contacts, membership, messages, suppressions, decisions,
                       tick, optimizerCalls, budget, others>>

----------------------------------------------------------------------------
(* Webhook outcomes and segment recomputation (collaborators that write    *)
(* the contact status and the membership the engine reads)                 *)

outcomeToMessageStatus(outcome) == IF outcome = "delivered" THEN "SENT" ELSE "FAILED"

NextContactStatus(outcome) ==
    CASE outcome = "bounced" -> "BOUNCED"
      [] outcome = "complained" -> "COMPLAINED"
      [] outcome = "suppressed" -> "SUPPRESSED"
      [] OTHER -> ""

ensureSuppression(list, contactId, reason, source) ==
    IF \E i \in DOMAIN list :
          list[i].contact = contactId /\ list[i].reason = reason /\ list[i].source = source
    THEN list
    ELSE Append(list, [contact |-> contactId, reason |-> reason, source |-> source])

processResendWebhook(m, outcome) ==
    /\ budget.webhooks > 0
    /\ m \in DOMAIN messages
    /\ messages[m].hasResendId
    /\ budget' = [budget EXCEPT !.webhooks = @ - 1]
    /\ IF messages[m].lastEvent = outcome
       THEN UNCHANGED <<messages, contacts, suppressions>>
       ELSE /\ messages' = [messages EXCEPT ![m].lastEvent = outcome,
                                            ![m].status = outcomeToMessageStatus(outcome)]
            /\ contacts' = IF NextContactStatus(outcome) # ""
                           THEN [contacts EXCEPT ![messages[m].contact].status = NextContactStatus(outcome)]
                           ELSE contacts
            /\ suppressions' = IF outcome \in {"bounced", "suppressed"}
                               THEN ensureSuppression(suppressions, messages[m].contact, outcome, "webhook")
                               ELSE suppressions
    /\ UNCHANGED <<runs, membership, decisions, tick, dispatches, attempts, optimizerCalls, others>>

matchesFilters(contact, filters) ==
    \A i \in DOMAIN filters :
        IF filters[i].type = "status" THEN contact.status = filters[i].value ELSE TRUE

recomputeSegmentMembership(segmentId) ==
    /\ membership' = { pair \in membership : pair[1] # segmentId } \cup
                     { <<segmentId, c>> : c \in { d \in DOMAIN contacts :
                           matchesFilters(contacts[d], SegmentFilters(segmentId)) } }
    /\ UNCHANGED <<runs, contacts, messages, suppressions, decisions,
                   tick, dispatches, attempts, optimizerCalls, budget, others>>

----------------------------------------------------------------------------
(* The tick: processDueFlowRuns *)

IsDue(run, now) == run.status \in DueStatuses /\ run.scheduledAt <= now

\* Variants of the due-run filter with one condition lost.
DueRuns_AnyStatus(now) == { r \in RunIds : runs[r].scheduledAt <= now }

DueRuns_NotCompleted(now) ==
    { r \in RunIds : runs[r].status # "COMPLETED" /\ runs[r].scheduledAt <= now }

DueRuns_AnySchedule(now) == { r \in RunIds : runs[r].status \in DueStatuses }

\* where: status in (PENDING, WAITING), scheduledAt <= now
DueRuns(now) == { r \in RunIds : IsDue(runs[r], now) }

Range(seq) == { seq[i] : i \in DOMAIN seq }

\* Variant of the query without the orderBy.
findDueRuns_Unordered(now, limit) ==
    LET due == DueRuns(now)
        n == IF Cardinality(due) < limit THEN Cardinality(due) ELSE limit
    IN  { batch \in [1..n -> due] : \A i, j \in 1..n : i < j => batch[i] # batch[j] }

\* findMany(where, orderBy scheduledAt asc, take limit): the store may return
\* runs of equal scheduledAt in any order.
findDueRuns(now, limit) ==
    LET due == DueRuns(now)
        n == IF Cardinality(due) < limit THEN Cardinality(due) ELSE limit
    IN  { batch \in [1..n -> due] :
            /\ \A i, j \in 1..n : i < j =>
                  /\ batch[i] # batch[j]
                  /\ runs[batch[i]].scheduledAt <= runs[batch[j]].scheduledAt
            /\ \A r \in due \ Range(batch) : \A i \in 1..n :
                  runs[batch[i]].scheduledAt <= runs[r].scheduledAt }

\* A run as loaded with the batch: its fields and the contact's, as stored
\* at load time.
Load(r) ==
    [id |-> r, flow |-> runs[r].flow, contactId |-> runs[r].contact,
     status |-> runs[r].status, nextStepOrder |-> runs[r].nextStepOrder,
     scheduledAt |-> runs[r].scheduledAt, contact |-> contacts[runs[r].contact]]

\* The head of processDueFlowRuns: the query for the due runs and the batch
\* it loads.
loadDueRuns(p, now, limitOption) ==
    /\ tick[p].pc = "idle"
    /\ LET limit == IF limitOption = Null THEN DefaultLimit ELSE limitOption
       IN  \E ids \in findDueRuns(now, limit) :
             tick' = [tick EXCEPT ![p] =
                        [pc |-> "running", now |-> now, limitOption |-> limitOption,
                         limit |-> limit,
                         batch |-> [i \in DOMAIN ids |-> Load(ids[i])], idx |-> 1,
                         known |-> Len(runs),
                         summary |-> [ZeroSummary EXCEPT !.evaluated = Len(ids)],
                         last |-> NoLast]]
    /\ UNCHANGED <<runs, contacts, membership, messages, suppressions, decisions,
                   dispatches, attempts, optimizerCalls>>

\* A tick called by the external scheduler, out of the ticks it has left.
processDueFlowRunsBegin(p, now, limitOption) ==
    /\ budget.ticks > 0
    /\ budget' = [budget EXCEPT !.ticks = @ - 1]
    /\ loadDueRuns(p, now, limitOption)
    /\ UNCHANGED others

\* The try branch of the batch loop: count the result of processSingleRun.
countResult(summary, result) ==
    [summary EXCEPT !.completed = IF result = "completed" THEN @ + 1 ELSE @,
                    !.rescheduled = IF result = "rescheduled" THEN @ + 1 ELSE @,
                    !.cancelled = IF result = "cancelled" THEN @ + 1 ELSE @]

\* Variant of the catch branch that also counts the failure a second time.
catchRunError_CountTwice(summary, run, error) ==
    [summary |-> [summary EXCEPT !.failed = @ + 2],
     run |-> [run EXCEPT !.status = "FAILED", !.cancelledReason = error],
     pc |-> "running"]

\* Variant of the catch branch that lets the error end the batch.
catchRunError_Abort(summary, run, error) ==
    [summary |-> [summary EXCEPT !.failed = @ + 1],
     run |-> [run EXCEPT !.status = "FAILED", !.cancelledReason = error],
     pc |-> "aborted"]

\* The catch branch of the batch loop: count the failure, mark the run
\* FAILED with the error's message, and go on with the batch.
catchRunError(summary, run, error) ==
    [summary |-> [summary EXCEPT !.failed = @ + 1],
     run |-> [run EXCEPT !.status = "FAILED", !.cancelledReason = error],
     pc |-> "running"]

processDueFlowRunsStep(p) ==
    /\ tick[p].pc = "running"
    /\ tick[p].idx <= Len(tick[p].batch)
    /\ LET L == tick[p].batch[tick[p].idx]
       IN  \E o \in processSingleRun(L, tick[p].now) :
             LET caught == catchRunError(tick[p].summary, o.run, o.error)
                 thrown == o.result = "thrown"
             IN  /\ runs' = [runs EXCEPT ![L.id] = IF thrown THEN caught.run ELSE o.run]
                 /\ messages' = o.messages
                 /\ contacts' = o.contacts
                 /\ decisions' = o.decisions
                 /\ dispatches' = [dispatches EXCEPT ![L.id] = @ + o.sent]
                 /\ attempts' = [attempts EXCEPT ![L.id] = @ + o.attempt]
                 /\ optimizerCalls' = optimizerCalls + o.optimizer
                 /\ tick' = [tick EXCEPT ![p].idx = @ + 1,
                                         ![p].pc = IF thrown THEN caught.pc ELSE "running",
                                         ![p].summary = IF thrown THEN caught.summary
                                                        ELSE countResult(@, o.result),
                                         ![p].last = [run |-> L.id, visited |-> o.visited,
                                                      result |-> o.result, error |-> o.error]]
    /\ UNCHANGED <<membership, suppressions, budget, others>>

processDueFlowRunsReturn(p) ==
    /\ tick[p].pc = "running"
    /\ tick[p].idx > Len(tick[p].batch)
    /\ tick' = [tick EXCEPT ![p] = IdleTick]
    /\ UNCHANGED <<runs, contacts, membership, messages, suppressions, decisions,
                   dispatches, attempts, optimizerCalls, budget, others>>

----------------------------------------------------------------------------
(* Ticks on a running clock *)

\* The minutes of the DELAY steps that a run has still to wait for: the
\* positive resolved minutes of the DELAY steps at or after its pointer.
RECURSIVE SumDelays(_, _, _)
SumDelays(flow, pointer, i) ==
    IF i > Len(flow.steps) THEN 0
    ELSE SumDelays(flow, pointer, i + 1) +
         (IF /\ flow.steps[i].type = "DELAY"
             /\ flow.steps[i].order >= pointer
             /\ extractDelayMinutes(flow.steps[i], flow.delayMinutes) > 0
          THEN extractDelayMinutes(flow.steps[i], flow.delayMinutes) ELSE 0)

RemainingDelay(run) == SumDelays(Flows[run.flow], run.nextStepOrder, 1)

\* Every run that is not finished can wait out its delays before the clock
\* reaches MaxClock, when the time is now.
WithinHorizon(rs, now) ==
    \A r \in DOMAIN rs :
        rs[r].status \in TerminalStatuses \/
        (IF now >= rs[r].scheduledAt THEN now ELSE rs[r].scheduledAt)
            + RemainingDelay(rs[r]) <= MaxClock

\* The minutes between two readings of the clock.
ClockStep == 15

\* Time passes; the scheduler's ticks keep up with it.
advanceClock ==
    /\ clock + ClockStep <= MaxClock
    /\ WithinHorizon(runs, clock + ClockStep)
    /\ clock' = clock + ClockStep
    /\ UNCHANGED <<runs, contacts, membership, messages, suppressions, decisions, tick,
                   dispatches, attempts, optimizerCalls, budget, sweep, evaluations,
                   optimizerState, walker>>

\* An event of contact 1 that occurs now.
eventAtClock(eventName) ==
    /\ triggerFlowsForEvent(1, eventName, clock)
    /\ Len(runs') <= LiveRuns
    /\ WithinHorizon(runs', clock)

\* The scheduler calls processDueFlowRuns({ now: clock, limit }).
tickAtClock(limit) ==
    /\ loadDueRuns(1, clock, limit)
    /\ UNCHANGED <<budget, others>>

----------------------------------------------------------------------------
(* Hygiene scoring and the hygiene sweep (lib/hygiene.ts) *)

HYGIENE_SUPPRESSION_REASON == "hygiene-risk"
STALE_EVENT_THRESHOLD_DAYS == 60
STALE_SEND_THRESHOLD_DAYS == 90
\* 0.15, in hundredths
LOW_PROPENSITY_THRESHOLD == 15

Max(a, b) == IF a >= b THEN a ELSE b

\* Variant that counts a contact as stale from the threshold on.
DaysSinceOver_AtLeast(now, t, days) == t = Null \/ now - t >= days * ONE_DAY_MIN

\* (now - t) / msPerDay > days, Infinity when t is null
DaysSinceOver(now, t, days) == t = Null \/ now - t > days * ONE_DAY_MIN

\* (now - t) / msPerDay < days
DaysSinceUnder(now, t, days) == t # Null /\ now - t < days * ONE_DAY_MIN

\* Variant that also applies the staleness and propensity checks to a contact
\* whose status already resolved to HIGH.
computeHygieneScore_ChecksOnHigh(input, now) ==
    LET propensityValue == IF input.propensity = Null THEN 0 ELSE input.propensity
        high == input.status \in {"BOUNCED", "COMPLAINED", "SUPPRESSED"}
        staleSend == DaysSinceOver(now, input.lastMessageSentAt, STALE_SEND_THRESHOLD_DAYS)
        staleEvent == DaysSinceOver(now, input.lastEventAt, STALE_EVENT_THRESHOLD_DAYS)
        lowPropensity == propensityValue > 0 /\ propensityValue < LOW_PROPENSITY_THRESHOLD
        synthetic == high /\ "synthetic" \in input.tags
    IN  [riskLevel |-> IF high THEN "HIGH"
                       ELSE IF staleSend \/ staleEvent \/ lowPropensity THEN "MEDIUM" ELSE "LOW",
         score |-> CASE input.status = "BOUNCED" -> 95
                     [] input.status = "COMPLAINED" -> 98
                     [] input.status = "SUPPRESSED" -> 90
                     [] OTHER -> IF staleSend THEN 65 ELSE IF staleEvent THEN 55
                                 ELSE IF lowPropensity THEN 50 ELSE 20,
         reasons |-> (CASE input.status = "BOUNCED" -> << "Hard bounce detected" >>
                        [] input.status = "COMPLAINED" -> << "Complaint reported" >>
                        [] input.status = "SUPPRESSED" -> << "Contact already suppressed" >>
                        [] OTHER -> << >>) \o
                     (IF staleSend THEN << "No sends in last 90 days" >> ELSE << >>) \o
                     (IF staleEvent THEN << "No engagement events in last 60 days" >> ELSE << >>) \o
                     (IF lowPropensity THEN << "Low propensity segment" >> ELSE << >>) \o
                     (IF synthetic THEN << "Synthetic contact safeguard" >> ELSE << >>),
         shouldSuppress |-> high /\ ~synthetic]

\* The tier, score, reasons and suppression advice for one contact.
computeHygieneScore(input, now) ==
    LET propensityValue == IF input.propensity = Null THEN 0 ELSE input.propensity
        high == input.status \in {"BOUNCED", "COMPLAINED", "SUPPRESSED"}
        staleSend == DaysSinceOver(now, input.lastMessageSentAt, STALE_SEND_THRESHOLD_DAYS)
        staleEvent == DaysSinceOver(now, input.lastEventAt, STALE_EVENT_THRESHOLD_DAYS)
        lowPropensity == propensityValue > 0 /\ propensityValue < LOW_PROPENSITY_THRESHOLD
        medium == staleSend \/ staleEvent \/ lowPropensity
        healthy == /\ ~medium
                   /\ propensityValue >= LOW_PROPENSITY_THRESHOLD
                   /\ DaysSinceUnder(now, input.lastEventAt, STALE_EVENT_THRESHOLD_DAYS)
        score1 == IF staleSend THEN Max(20, 65) ELSE 20
        score2 == IF staleEvent THEN Max(score1, 55) ELSE score1
        score3 == IF lowPropensity THEN Max(score2, 50) ELSE score2
        synthetic == high /\ "synthetic" \in input.tags
    IN  IF high
        THEN [riskLevel |-> "HIGH",
              score |-> CASE input.status = "BOUNCED" -> 95
                          [] input.status = "COMPLAINED" -> 98
                          [] OTHER -> 90,
              reasons |-> << CASE input.status = "BOUNCED" -> "Hard bounce detected"
                               [] input.status = "COMPLAINED" -> "Complaint reported"
                               [] OTHER -> "Contact already suppressed" >> \o
                          (IF synthetic THEN << "Synthetic contact safeguard" >> ELSE << >>),
              shouldSuppress |-> ~synthetic]
        ELSE [riskLevel |-> IF medium THEN "MEDIUM" ELSE "LOW",
              score |-> IF healthy THEN 25 ELSE score3,
              reasons |-> (IF staleSend THEN << "No sends in last 90 days" >> ELSE << >>) \o
                          (IF staleEvent THEN << "No engagement events in last 60 days" >> ELSE << >>) \o
                          (IF lowPropensity THEN << "Low propensity segment" >> ELSE << >>) \o
                          (IF healthy THEN << "Healthy engagement" >> ELSE << >>),
              shouldSuppress |-> FALSE]

\* The elements of S between lo and hi, in ascending order.
RECURSIVE Ascending(_, _, _)
Ascending(S, lo, hi) ==
    IF lo > hi THEN << >>
    ELSE IF lo = hi THEN (IF lo \in S THEN << lo >> ELSE << >>)
    ELSE Ascending(S, lo, (lo + hi) \div 2) \o Ascending(S, (lo + hi) \div 2 + 1, hi)

\* Variant in which the loop passes over the first contact.
SetToSeq_SkipFirst(S) == Ascending(S, 2, Cardinality(DOMAIN contacts))

\* The elements of a set of contact ids, in ascending order.
SetToSeq(S) == Ascending(S, 1, Cardinality(DOMAIN contacts))

\* findMany({ take: limit }): all contacts, or any limit of them.
findSweepContacts(limit) ==
    IF limit = Null THEN { DOMAIN contacts }
    ELSE { S \in SUBSET (DOMAIN contacts) :
              Cardinality(S) = Min({limit, Cardinality(DOMAIN contacts)}) }

\* runHygieneSweep up to its transaction: read the options and the contacts
\* with their suppressions.
runHygieneSweepBegin(now, suppressHighRisk, limit) ==
    /\ sweep.pc = "idle"
    /\ budget.sweeps > 0
    /\ budget' = [budget EXCEPT !.sweeps = @ - 1]
    /\ \E loaded \in findSweepContacts(limit) :
          sweep' = IF loaded = {}
                   THEN [IdleSweep EXCEPT !.summary = ZeroSweepSummary]
                   ELSE [pc |-> "loaded", now |-> now, suppressHighRisk |-> suppressHighRisk,
                         loaded |-> loaded,
                         contacts |-> [c \in loaded |-> contacts[c]],
                         suppressions |-> suppressions,
                         summary |-> ZeroSweepSummary]
    /\ UNCHANGED <<runs, contacts, membership, messages, suppressions, decisions,
                   tick, dispatches, attempts, optimizerCalls,
                   evaluations, optimizerState, walker, clock>>

\* Variant that applies the suppression to every HIGH contact, seeded or not.
sweepDecision_IgnoreSynthetic(c) ==
    LET contact == sweep.contacts[c]
        result == computeHygieneScore(contact, sweep.now)
        shouldApplySuppression ==
            /\ result.riskLevel = "HIGH"
            /\ sweep.suppressHighRisk # "false"
        alreadySuppressed == contact.status = "SUPPRESSED"
        hasSuppression ==
            \E i \in DOMAIN sweep.suppressions :
                /\ sweep.suppressions[i].contact = c
                /\ sweep.suppressions[i].reason = HYGIENE_SUPPRESSION_REASON
    IN  [result |-> result,
         evaluation |-> [contact |-> c, riskLevel |-> result.riskLevel, score |-> result.score,
                         suppressed |-> result.shouldSuppress /\ sweep.suppressHighRisk # "false",
                         reasons |-> result.reasons],
         needsRiskUpdate |->
             \/ contact.hygieneRiskLevel # result.riskLevel
             \/ (IF contact.hygieneScore = Null THEN 0 ELSE contact.hygieneScore) # result.score,
         setSuppressed |-> shouldApplySuppression /\ ~alreadySuppressed,
         addSuppression |-> shouldApplySuppression /\ ~hasSuppression]

\* Variant that adds a Suppression row without looking for an existing one.
sweepDecision_NoLedgerCheck(c) ==
    LET contact == sweep.contacts[c]
        result == computeHygieneScore(contact, sweep.now)
        shouldApplySuppression ==
            /\ result.riskLevel = "HIGH"
            /\ sweep.suppressHighRisk # "false"
            /\ "synthetic" \notin contact.tags
        alreadySuppressed == contact.status = "SUPPRESSED"
    IN  [result |-> result,
         evaluation |-> [contact |-> c, riskLevel |-> result.riskLevel, score |-> result.score,
                         suppressed |-> result.shouldSuppress /\ sweep.suppressHighRisk # "false",
                         reasons |-> result.reasons],
         needsRiskUpdate |->
             \/ contact.hygieneRiskLevel # result.riskLevel
             \/ (IF contact.hygieneScore = Null THEN 0 ELSE contact.hygieneScore) # result.score,
         setSuppressed |-> shouldApplySuppression /\ ~alreadySuppressed,
         addSuppression |-> shouldApplySuppression]

\* Variant that suppresses HIGH contacts whatever the option says.
sweepDecision_IgnoreOption(c) ==
    LET contact == sweep.contacts[c]
        result == computeHygieneScore(contact, sweep.now)
        shouldApplySuppression ==
            /\ result.riskLevel = "HIGH"
            /\ "synthetic" \notin contact.tags
        alreadySuppressed == contact.status = "SUPPRESSED"
        hasSuppression ==
            \E i \in DOMAIN sweep.suppressions :
                /\ sweep.suppressions[i].contact = c
                /\ sweep.suppressions[i].reason = HYGIENE_SUPPRESSION_REASON
    IN  [result |-> result,
         evaluation |-> [contact |-> c, riskLevel |-> result.riskLevel, score |-> result.score,
                         suppressed |-> result.shouldSuppress /\ sweep.suppressHighRisk # "false",
                         reasons |-> result.reasons],
         needsRiskUpdate |->
             \/ contact.hygieneRiskLevel # result.riskLevel
             \/ (IF contact.hygieneScore = Null THEN 0 ELSE contact.hygieneScore) # result.score,
         setSuppressed |-> shouldApplySuppression /\ ~alreadySuppressed,
         addSuppression |-> shouldApplySuppression /\ ~hasSuppression]

\* What the loop of the sweep decides for one loaded contact.
sweepDecision(c) ==
    LET contact == sweep.contacts[c]
        result == computeHygieneScore(contact, sweep.now)
        shouldApplySuppression ==
            /\ result.riskLevel = "HIGH"
            /\ sweep.suppressHighRisk # "false"
            /\ "synthetic" \notin contact.tags
        alreadySuppressed == contact.status = "SUPPRESSED"
        hasSuppression ==
            \E i \in DOMAIN sweep.suppressions :
                /\ sweep.suppressions[i].contact = c
                /\ sweep.suppressions[i].reason = HYGIENE_SUPPRESSION_REASON
    IN  [result |-> result,
         evaluation |-> [contact |-> c, riskLevel |-> result.riskLevel, score |-> result.score,
                         suppressed |-> result.shouldSuppress /\ sweep.suppressHighRisk # "false",
                         reasons |-> result.reasons],
         needsRiskUpdate |->
             \/ contact.hygieneRiskLevel # result.riskLevel
             \/ (IF contact.hygieneScore = Null THEN 0 ELSE contact.hygieneScore) # result.score,
         setSuppressed |-> shouldApplySuppression /\ ~alreadySuppressed,
         addSuppression |-> shouldApplySuppression /\ ~hasSuppression]

\* The transaction of the sweep and its summary.
runHygieneSweepCommit ==
    /\ sweep.pc = "loaded"
    /\ LET ids == SetToSeq(sweep.loaded)
           d(c) == sweepDecision(c)
           count(P(_)) == Cardinality({ c \in sweep.loaded : P(c) })
           isHigh(c) == d(c).result.riskLevel = "HIGH"
           isMedium(c) == d(c).result.riskLevel = "MEDIUM"
           isLow(c) == d(c).result.riskLevel = "LOW"
           adds(c) == d(c).addSuppression
           sets(c) == d(c).setSuppressed
       IN  /\ evaluations' = evaluations \o [i \in DOMAIN ids |-> d(ids[i]).evaluation]
           /\ contacts' = [c \in DOMAIN contacts |->
                  IF c \notin sweep.loaded THEN contacts[c]
                  ELSE [contacts[c] EXCEPT
                          !.hygieneRiskLevel = IF d(c).needsRiskUpdate THEN d(c).result.riskLevel ELSE @,
                          !.hygieneScore = IF d(c).needsRiskUpdate THEN d(c).result.score ELSE @,
                          !.status = IF d(c).setSuppressed THEN "SUPPRESSED" ELSE @]]
           /\ suppressions' = suppressions \o
                  [i \in DOMAIN SetToSeq({ c \in sweep.loaded : adds(c) }) |->
                      [contact |-> SetToSeq({ c \in sweep.loaded : adds(c) })[i],
                       reason |-> HYGIENE_SUPPRESSION_REASON, source |-> "system"]]
           /\ sweep' = [IdleSweep EXCEPT !.summary =
                  [evaluated |-> Cardinality(sweep.loaded),
                   highRisk |-> count(isHigh), mediumRisk |-> count(isMedium),
                   lowRisk |-> count(isLow),
                   suppressionsCreated |-> count(adds),
                   contactsSuppressed |-> count(sets)]]
    /\ UNCHANGED <<runs, membership, messages, decisions, tick, dispatches, attempts,
                   optimizerCalls, budget, optimizerState, walker, clock>>

----------------------------------------------------------------------------
(* The send-time optimizer (lib/optimizer.ts): histograms, cache, scoring *)

HOURS_PER_WEEK == 7 * 24
SMOOTHING_ALPHA == 5
HISTOGRAM_CACHE_TTL_MIN == 1

Hours == 0 .. (HOURS_PER_WEEK - 1)

\* A score or a prior as an exact fraction num/den with den > 0.
Ratio(num, den) == [num |-> num, den |-> den]

RatioGreater(a, b) == a.num * b.den > b.num * a.den

RatioEqual(a, b) == a.num * b.den = b.num * a.den

\* The prior of a histogram without sends, 0.05
DefaultPrior == Ratio(1, 20)

\* -Infinity: below every score
NegInfinity == Ratio(-1, 1)

createHistogram == [sends |-> [h \in Hours |-> 0], clicks |-> [h \in Hours |-> 0]]

\* date.getUTCDay() * 24 + date.getUTCHours()
hourOfWeek(date) == UTCDay(date) * 24 + ((date % ONE_DAY_MIN) \div 60)

\* getSegmentTag returns null when no tag starts with "segment="
NoSegment == "null"

SegmentTags == {"segment=a", "segment=b", "segment=c", "segment="}

\* tag.split("=")[1] for the tags that start with the prefix
SplitValue(tag) ==
    CASE tag = "segment=a" -> "a"
      [] tag = "segment=b" -> "b"
      [] tag = "segment=c" -> "c"
      [] OTHER -> ""

\* The value of the first tag that starts with "segment=" (a contact carries
\* at most one such tag), null when there is none.
getSegmentTag(tags) ==
    IF tags \cap SegmentTags = { } THEN NoSegment
    ELSE SplitValue(CHOOSE tag \in tags \cap SegmentTags : TRUE)

\* if (segment): null and "" are both falsy
Truthy(segment) == segment # NoSegment /\ segment # ""

\* The histogram of the messages with the given indices.
HistogramOf(msgs, S) ==
    LET hour == [i \in S |-> hourOfWeek(msgs[i].sentAt)]
        clicked == { i \in S : msgs[i].clickedAt # Null }
    IN  [sends |-> [h \in Hours |-> Cardinality({ i \in S : hour[i] = h })],
         clicks |-> [h \in Hours |-> Cardinality({ i \in clicked : hour[i] = h })]]

\* buildHistograms: every message with a sentAt counts in the global histogram
\* and in the histogram of the segment its contact is tagged with now.
buildHistograms(msgs, cts) ==
    LET sent == { i \in DOMAIN msgs : msgs[i].sentAt # Null }
        segmentOf(i) == getSegmentTag(cts[msgs[i].contact].tags)
        names == { segmentOf(i) : i \in { j \in sent : Truthy(segmentOf(j)) } }
    IN  [global |-> HistogramOf(msgs, sent),
         segments |-> [name \in names |->
                          HistogramOf(msgs, { i \in sent : segmentOf(i) = name })]]

\* Variant whose cache never expires.
getHistograms_NeverExpires(cache, now, msgs, cts) ==
    IF cache # << >>
    THEN [data |-> cache[1].data, cache |-> cache]
    ELSE LET data == buildHistograms(msgs, cts)
         IN  [data |-> data, cache |-> << [data |-> data, fetchedAt |-> now] >>]

\* getHistograms at wall-clock instant now: the cached data while the cache is
\* younger than the TTL, otherwise a rebuild that replaces the cache.
getHistograms(cache, now, msgs, cts) ==
    IF cache # << >> /\ now - cache[1].fetchedAt < HISTOGRAM_CACHE_TTL_MIN
    THEN [data |-> cache[1].data, cache |-> cache]
    ELSE LET data == buildHistograms(msgs, cts)
         IN  [data |-> data, cache |-> << [data |-> data, fetchedAt |-> now] >>]

RECURSIVE Sum(_, _, _)
\* values.reduce((sum, value) => sum + value, 0) over the hours lo..hi; the
\* range is added up in halves.
Sum(values, lo, hi) ==
    IF lo > hi THEN 0
    ELSE IF lo = hi THEN values[lo]
    ELSE Sum(values, lo, (lo + hi) \div 2) + Sum(values, (lo + hi) \div 2 + 1, hi)

\* Variant that uses the default prior for every histogram.
computePrior_DefaultOnly(histogram) == DefaultPrior

computePrior(histogram) ==
    LET totalSends == Sum(histogram.sends, 0, HOURS_PER_WEEK - 1)
        totalClicks == Sum(histogram.clicks, 0, HOURS_PER_WEEK - 1)
    IN  IF totalSends = 0 THEN DefaultPrior ELSE Ratio(totalClicks, totalSends)

\* (clicks + SMOOTHING_ALPHA * prior) / (sends + SMOOTHING_ALPHA)
scoreHistogram(hour, histogram, prior) ==
    Ratio(histogram.clicks[hour] * prior.den + SMOOTHING_ALPHA * prior.num,
          prior.den * (histogram.sends[hour] + SMOOTHING_ALPHA))

\* Variant whose loop body replaces the best hour on an equal score.
visitHour_KeepLast(hour, histogram, prior, best) ==
    LET score == scoreHistogram(hour, histogram, prior)
    IN  IF ~RatioGreater(best.score, score) THEN [hour |-> hour, score |-> score] ELSE best

\* One iteration of the loop of pickBestHour: if (score > bestScore) ...
visitHour(hour, histogram, prior, best) ==
    LET score == scoreHistogram(hour, histogram, prior)
    IN  IF RatioGreater(score, best.score) THEN [hour |-> hour, score |-> score] ELSE best

RECURSIVE scanHours(_, _, _, _, _)
\* The iterations of the loop for the hours lo..hi, in ascending order,
\* started with best: the first half of the range is completed, then the
\* second half runs on what the first left.
scanHours(lo, hi, histogram, prior, best) ==
    IF lo > hi THEN best
    ELSE IF lo = hi THEN visitHour(lo, histogram, prior, best)
    ELSE LET first == scanHours(lo, (lo + hi) \div 2, histogram, prior, best)
         IN  IF first.hour \in Hours
             THEN scanHours((lo + hi) \div 2 + 1, hi, histogram, prior, first)
             ELSE first

pickBestHour(histogram, fallback) ==
    LET best == scanHours(0, HOURS_PER_WEEK - 1, histogram, computePrior(histogram),
                          [hour |-> 0, score |-> NegInfinity])
    IN  [hour |-> best.hour, score |-> best.score,
         baseline |-> scoreHistogram(best.hour, fallback, computePrior(fallback))]

\* Variant that never takes a segment histogram.
usesSegmentHistogram_Never(data, segment) == FALSE

\* segmentHistogram && segmentHistogram.sends.some(value => value > 0)
usesSegmentHistogram(data, segment) ==
    /\ Truthy(segment)
    /\ segment \in DOMAIN data.segments
    /\ \E h \in Hours : data.segments[segment].sends[h] > 0

\* What a call of recommendSendTime returned, and for which contact.
Recommendation(result, contactId, hour, at, score, baseline, reason, throttled) ==
    [result |-> result, contact |-> contactId, recommendedHour |-> hour,
     recommendedAt |-> at, score |-> score, baselineScore |-> baseline,
     reason |-> reason, throttled |-> throttled]

\* Variant that loads the histograms before it looks at the contact's status.
histogramsForInactive_Load(cache, now) ==
    getHistograms(cache, now, messages, contacts).cache

\* The cache after a call for a contact that is not ACTIVE.
histogramsForInactive(cache, now) == cache

\* Variant that keeps one record per contact and overwrites it.
createOptimizerDecision_Upsert(decs, data) ==
    IF \E i \in DOMAIN decs : decs[i].contact = data.contact
    THEN [i \in DOMAIN decs |-> IF decs[i].contact = data.contact THEN data ELSE decs[i]]
    ELSE Append(decs, data)

\* prisma.optimizerDecision.create: a new record, the others untouched
createOptimizerDecision(decs, data) == Append(decs, data)

\* recommendSendTime(contactId, referenceDate) at wall-clock instant now
recommendSendTimeCall(contactId, referenceDate, now) ==
    /\ optimizerState.histogramCache # << >> => now >= optimizerState.histogramCache[1].fetchedAt
    /\ IF contactId \notin DOMAIN contacts
       THEN /\ optimizerState' = [optimizerState EXCEPT !.last =
                  Recommendation("Contact not found", contactId, Null, Null,
                                 Ratio(0, 1), Ratio(0, 1), "", FALSE)]
            /\ UNCHANGED <<decisions, budget>>
       ELSE IF contacts[contactId].status # "ACTIVE"
       THEN /\ optimizerState' =
                  [histogramCache |-> histogramsForInactive(optimizerState.histogramCache, now),
                   last |-> Recommendation("ok", contactId, Null, Null,
                                           Ratio(0, 1), Ratio(0, 1), "Contact not active", FALSE)]
            /\ UNCHANGED <<decisions, budget>>
       ELSE /\ budget.recommendations > 0
            /\ budget' = [budget EXCEPT !.recommendations = @ - 1]
            /\ \E got \in {getHistograms(optimizerState.histogramCache, now, messages, contacts)} :
                 LET contact == contacts[contactId]
                     segment == getSegmentTag(contact.tags)
                     useSegment == usesSegmentHistogram(got.data, segment)
                     histogramToUse == IF useSegment THEN got.data.segments[segment]
                                       ELSE got.data.global
                 IN
                 \E best \in {pickBestHour(histogramToUse, got.data.global)} :
                 LET rec == recommendSendTime(contact, referenceDate, best.hour)
                     rationale == IF Truthy(segment)
                                  THEN "Segment-based recommendation (" \o segment \o ")"
                                  ELSE "Global recommendation"
                 IN  /\ optimizerState' =
                           [histogramCache |-> got.cache,
                            last |-> Recommendation("ok", contactId, best.hour, rec.recommendedAt,
                                        best.score, best.baseline,
                                        IF rec.throttled
                                        THEN rationale \o " - throttled 24h cooldown"
                                        ELSE rationale,
                                        rec.throttled)]
                     /\ decisions' = createOptimizerDecision(decisions,
                           [contact |-> contactId, recommendedHour |-> best.hour,
                            score |-> best.score, baselineScore |-> best.baseline,
                            throttled |-> rec.throttled, recommendedAt |-> rec.recommendedAt,
                            generatedAt |-> referenceDate,
                            segment |-> IF segment = NoSegment THEN "global" ELSE segment,
                            usedSegmentHistogram |-> useSegment])
    /\ UNCHANGED <<runs, contacts, membership, messages, suppressions,
                   tick, dispatches, attempts, optimizerCalls, sweep, evaluations, walker, clock>>

resetOptimizerCache ==
    /\ optimizerState.histogramCache # << >>
    /\ optimizerState' = [optimizerState EXCEPT !.histogramCache = << >>]
    /\ UNCHANGED <<runs, contacts, membership, messages, suppressions, decisions,
                   tick, dispatches, attempts, optimizerCalls, budget, sweep, evaluations, walker, clock>>

----------------------------------------------------------------------------
(* Synthetic click generation (scripts/seed): the writer of clickedAt *)

\* The messages generateClicks gives an outcome: sent, to a seeded contact.
SeededMessages ==
    { i \in DOMAIN messages : /\ messages[i].sentAt # Null
                              /\ "synthetic" \in contacts[messages[i].contact].tags }

\* The sentAt of the last seeded message of contact c in store order.
LastSeededSentAt(c) ==
    LET mine == { i \in SeededMessages : messages[i].contact = c }
    IN  IF mine = { } THEN contacts[c].lastMessageSentAt
        ELSE messages[CHOOSE i \in mine : \A j \in mine : j <= i].sentAt

\* generateClicks: every seeded message gets an outcome, clicked for the
\* messages the random draw picks (clickedAt 5 to 179 minutes after sentAt),
\* and its contact's lastMessageSentAt becomes the message's sentAt.
generateClicks(clicked) ==
    /\ clicked \subseteq SeededMessages
    /\ messages' = [i \in DOMAIN messages |->
                      IF i \notin SeededMessages THEN messages[i]
                      ELSE [messages[i] EXCEPT
                              !.clickedAt = IF i \in clicked THEN messages[i].sentAt + 5 ELSE Null,
                              !.lastEvent = IF i \in clicked THEN "clicked" ELSE "delivered"]]
    /\ contacts' = [c \in DOMAIN contacts |->
                      [contacts[c] EXCEPT !.lastMessageSentAt = LastSeededSentAt(c)]]
    /\ UNCHANGED <<runs, membership, suppressions, decisions, tick, dispatches,
                   attempts, optimizerCalls, budget, others>>

----------------------------------------------------------------------------
(* Recipient selection of the broadcast sender (lib/broadcasts.ts) *)

SEND_EXCLUDED_STATUSES == {"SUPPRESSED", "COMPLAINED"}

\* partitionContactsByEligibility over the contacts with the given ids
partitionContactsByEligibility(ids) ==
    [sendable |-> { c \in ids : ~(~contacts[c].email \/ contacts[c].status \in SEND_EXCLUDED_STATUSES) },
     skipped |-> { c \in ids : ~contacts[c].email \/ contacts[c].status \in SEND_EXCLUDED_STATUSES }]

----------------------------------------------------------------------------
(* Contact import (lib/contacts.ts) *)

\* The rows a CSV can carry; an email is named by the id of the contact that
\* has it, or will have it.
ImportRows ==
    { [email |-> 2, timezone |-> "", tags |-> {"synthetic"}],
      [email |-> 2, timezone |-> "", tags |-> { }],
      [email |-> MaxContacts, timezone |-> "Europe/Berlin", tags |-> { }] }

\* Variant whose update branch also writes the status of the create branch.
upsertContact_ResetStatus(store, row) ==
    IF row.email \in DOMAIN store
    THEN [store EXCEPT ![row.email].timezone = row.timezone, ![row.email].tags = row.tags,
                       ![row.email].status = "ACTIVE"]
    ELSE store @@ (row.email :> [Contact(TRUE, "ACTIVE", row.timezone, Null) EXCEPT !.tags = row.tags])

\* prisma.contact.upsert({ where: { email }, update: { timezone, tags },
\* create: { email, timezone, tags, status: ACTIVE } })
upsertContact(store, row) ==
    IF row.email \in DOMAIN store
    THEN [store EXCEPT ![row.email].timezone = row.timezone, ![row.email].tags = row.tags]
    ELSE store @@ (row.email :> [Contact(TRUE, "ACTIVE", row.timezone, Null) EXCEPT !.tags = row.tags])

\* importContactsFromCsv for a CSV of one data row.
importContactsFromCsv(row) ==
    /\ contacts' = upsertContact(contacts, row)
    /\ UNCHANGED <<runs, membership, messages, suppressions, decisions, tick, dispatches,
                   attempts, optimizerCalls, budget, others>>

----------------------------------------------------------------------------
(* The test list (lib/test_contacts.ts and its creation route) *)

\* Variant whose contacts carry the synthetic tag of seeded data.
OUTCOME_CONFIGS_Synthetic ==
    <<  [key |-> "delivered", count |-> 200, status |-> "ACTIVE", basePropensity |-> 78,
         tags |-> {"test-list", "outcome=delivered", "synthetic"}],
        [key |-> "bounced", count |-> 20, status |-> "BOUNCED", basePropensity |-> 4,
         tags |-> {"test-list", "outcome=bounced", "synthetic"}],
        [key |-> "suppressed", count |-> 5, status |-> "SUPPRESSED", basePropensity |-> 1,
         tags |-> {"test-list", "outcome=suppressed", "synthetic"}],
        [key |-> "complained", count |-> 3, status |-> "COMPLAINED", basePropensity |-> 0,
         tags |-> {"test-list", "outcome=complained", "synthetic"}] >>

\* The four outcomes of the list; propensities in hundredths.
OUTCOME_CONFIGS ==
    <<  [key |-> "delivered", count |-> 200, status |-> "ACTIVE", basePropensity |-> 78,
         tags |-> {"test-list", "outcome=delivered"}],
        [key |-> "bounced", count |-> 20, status |-> "BOUNCED", basePropensity |-> 4,
         tags |-> {"test-list", "outcome=bounced"}],
        [key |-> "suppressed", count |-> 5, status |-> "SUPPRESSED", basePropensity |-> 1,
         tags |-> {"test-list", "outcome=suppressed"}],
        [key |-> "complained", count |-> 3, status |-> "COMPLAINED", basePropensity |-> 0,
         tags |-> {"test-list", "outcome=complained"}] >>

TIMEZONES == << "America/New_York", "America/Chicago", "America/Denver", "America/Los_Angeles" >>

\* The number of specs pushed for the outcomes before the j-th.
RECURSIVE SpecsBefore(_)
SpecsBefore(j) == IF j <= 1 THEN 0 ELSE SpecsBefore(j - 1) + OUTCOME_CONFIGS[j - 1].count

\* The outcome whose loop pushes the k-th spec.
ConfigOf(k) ==
    CHOOSE j \in DOMAIN OUTCOME_CONFIGS :
        SpecsBefore(j) < k /\ k <= SpecsBefore(j) + OUTCOME_CONFIGS[j].count

\* generateTestContactSpecs: for each outcome in turn, count specs numbered
\* from 1, with the timezones in rotation and the propensity stepped by 0.01.
generateTestContactSpecs ==
    [k \in 1..SpecsBefore(Len(OUTCOME_CONFIGS) + 1) |->
        LET config == OUTCOME_CONFIGS[ConfigOf(k)]
            i == k - SpecsBefore(ConfigOf(k))
        IN  [email |-> << config.key, i >>,
             status |-> config.status,
             tags |-> config.tags,
             timezone |-> TIMEZONES[((i - 1) % Len(TIMEZONES)) + 1],
             propensity |-> Min({config.basePropensity + (i % 5), 95})]]

\* POST of the creation route: every spec is upserted by its email; a new
\* contact has no event and no send, an existing one gets the status, tags,
\* timezone and propensity of its spec again.  The store holds no other
\* contact, so that the k-th spec is contact k.
createTestContacts ==
    /\ contacts' =
          [k \in DOMAIN generateTestContactSpecs |->
              LET spec == generateTestContactSpecs[k]
              IN  IF k \in DOMAIN contacts
                  THEN [contacts[k] EXCEPT !.status = spec.status, !.tags = spec.tags,
                                           !.timezone = spec.timezone,
                                           !.propensity = spec.propensity]
                  ELSE [Contact(TRUE, spec.status, spec.timezone, Null) EXCEPT
                           !.tags = spec.tags, !.propensity = spec.propensity]]
    /\ UNCHANGED <<runs, membership, messages, suppressions, decisions, tick, dispatches,
                   attempts, optimizerCalls, budget, sweep, evaluations, optimizerState, walker, clock>>

----------------------------------------------------------------------------
(* The loop of processSingleRun, one iteration at a time, over a step list *)
(* of any shape.  The walker holds the flow, the pointer the run was       *)
(* loaded with, the local pointer and what the loop has done so far.       *)

\* steps.find(candidate => candidate.order === pointer): the position of the
\* first stored step with that order, 0 when there is none.
findStep(steps, pointer) ==
    LET found == { i \in DOMAIN steps : steps[i].order = pointer }
    IN  IF found = {} THEN 0 ELSE CHOOSE i \in found : \A j \in found : i <= j

LoopResult(kind, pointer) == [kind |-> kind, pointer |-> pointer]

\* Variant in which a DELAY without positive minutes leaves the pointer
\* where it is.
loopBody_StayOnZeroDelay(flow, contactId, pointer) ==
    IF findStep(flow.steps, pointer) = 0
    THEN LoopResult("end", pointer)
    ELSE LET step == flow.steps[findStep(flow.steps, pointer)]
             next == getNextOrder(pointer, flow.steps)
         IN  CASE step.type = "DELAY" ->
                    IF extractDelayMinutes(step, flow.delayMinutes) <= 0
                    THEN LoopResult("continue", pointer)
                    ELSE LoopResult("delay", pointer)
               [] step.type = "SEGMENT_FILTER" ->
                    IF /\ extractSegmentId(step, flow.segmentId) # ""
                       /\ <<extractSegmentId(step, flow.segmentId), contactId>> \notin membership
                    THEN LoopResult("filtered", pointer)
                    ELSE LoopResult("continue", next)
               [] step.type = "SEND_TEMPLATE" -> LoopResult("send", pointer)
               [] OTHER -> LoopResult("continue", next)

\* One iteration of while (true): return at the end of the steps, at a DELAY
\* with positive minutes, at a failed SEGMENT_FILTER and at SEND_TEMPLATE;
\* otherwise continue from the next order.
loopBody(flow, contactId, pointer) ==
    IF findStep(flow.steps, pointer) = 0
    THEN LoopResult("end", pointer)
    ELSE LET step == flow.steps[findStep(flow.steps, pointer)]
             next == getNextOrder(pointer, flow.steps)
         IN  CASE step.type = "DELAY" ->
                    IF extractDelayMinutes(step, flow.delayMinutes) <= 0
                    THEN LoopResult("continue", next)
                    ELSE LoopResult("delay", pointer)
               [] step.type = "SEGMENT_FILTER" ->
                    IF /\ extractSegmentId(step, flow.segmentId) # ""
                       /\ <<extractSegmentId(step, flow.segmentId), contactId>> \notin membership
                    THEN LoopResult("filtered", pointer)
                    ELSE LoopResult("continue", next)
               [] step.type = "SEND_TEMPLATE" -> LoopResult("send", pointer)
               [] OTHER -> LoopResult("continue", next)

\* The loop runs its next iteration for a run of contact 1.
walkIteration ==
    /\ walker.pc = "looping"
    /\ LET result == loopBody(walker.flow, 1, walker.pointer)
       IN  walker' = [walker EXCEPT
               !.pc = IF result.kind = "continue" THEN "looping" ELSE result.kind,
               !.pointer = result.pointer,
               !.iterations = @ + 1,
               !.visited = IF findStep(walker.flow.steps, walker.pointer) = 0
                           THEN @ ELSE Append(@, walker.pointer)]
    /\ UNCHANGED <<runs, contacts, membership, messages, suppressions, decisions, tick,
                   dispatches, attempts, optimizerCalls, budget, sweep, evaluations,
                   optimizerState, clock>>

----------------------------------------------------------------------------
(* Specifications *)

\* The handlers that run beside the engine.
Environment ==
    \/ \E m \in DOMAIN messages, o \in WebhookOutcomes : processResendWebhook(m, o)
    \/ \E s \in SegmentIds : recomputeSegmentMembership(s)

\* Ticks run one at a time, as the external scheduler is required to ensure.
Next ==
    \/ \E c \in ContactIds, e \in EventNames, t \in EventTimes :
          triggerFlowsForEvent(c, e, t) /\ Len(runs') <= MaxRuns
    \/ Environment
    \/ \E now \in TickTimes, limit \in TickLimits : processDueFlowRunsBegin(1, now, limit)
    \/ processDueFlowRunsStep(1)
    \/ processDueFlowRunsReturn(1)

Spec == Init /\ [][Next]_vars

\* Segment s1 has been computed and contains contact 1; no webhook arrives
\* and the segment is not recomputed while the ticks run.
InitQuiet ==
    /\ runs = << >>
    /\ contacts = [c \in ContactIds |->
                     IF c = 1 THEN Contact(TRUE, "ACTIVE", "America/New_York", -1500)
                     ELSE Contact(TRUE, "BOUNCED", "", Null)]
    /\ messages = << Message(1, 0, "SENT", Null, -1500) >>
    /\ membership = { <<"s1", 1>> }
    /\ suppressions = << >>
    /\ decisions = << >>
    /\ tick = [p \in TickProcs |-> IdleTick]
    /\ dispatches = << >>
    /\ attempts = << >>
    /\ optimizerCalls = 0
    /\ budget = [ticks |-> MaxTicks, webhooks |-> 0, sweeps |-> 0, recommendations |-> 0]
    /\ sweep = IdleSweep
    /\ evaluations = << >>
    /\ optimizerState = IdleOptimizer
    /\ walker = IdleWalker
    /\ clock = 0

NextOverlap ==
    \/ \E c \in ContactIds, e \in EventNames, t \in EventTimes :
          triggerFlowsForEvent(c, e, t) /\ Len(runs') <= OverlapRuns
    \/ \E p \in TickProcs, now \in TickTimes :
          processDueFlowRunsBegin(p, now, Null)
    \/ \E p \in TickProcs : processDueFlowRunsStep(p)
    \/ \E p \in TickProcs : processDueFlowRunsReturn(p)

\* Ticks run one at a time over batches of several runs.
NextBatch ==
    \/ \E c \in ContactIds, e \in EventNames, t \in EventTimes :
          triggerFlowsForEvent(c, e, t) /\ Len(runs') <= BatchRuns
    \/ \E now \in TickTimes, limit \in TickLimits : processDueFlowRunsBegin(1, now, limit)
    \/ processDueFlowRunsStep(1)
    \/ processDueFlowRunsReturn(1)

SpecBatch == InitQuiet /\ [][NextBatch]_vars

\* Two ticks, both started with the default limit, may overlap.
SpecOverlap == InitQuiet /\ [][NextOverlap]_vars

\* Inputs of the hygiene sweep
SweepTimes == {100}
SuppressOptions == {"undefined", "true", "false"}

\* Contact status under all of its writers.  Contact 1 has triggered flow 2
\* at instant 0 and its run is pending; ticks start at instant 10 with the
\* default limit and sweeps run over all contacts.
InitExclusion ==
    /\ runs = createRuns(MatchingFlows("purchase"), 1, 0, << >>)
    /\ contacts = [c \in ContactIds |->
                     IF c = 1 THEN Contact(TRUE, "ACTIVE", "America/New_York", -1500)
                     ELSE Contact(TRUE, "BOUNCED", "", Null)]
    /\ messages = << Message(1, 0, "SENT", Null, -1500) >>
    /\ membership = { <<"s1", 1>> }
    /\ suppressions = << >>
    /\ decisions = << >>
    /\ tick = [p \in TickProcs |-> IdleTick]
    /\ dispatches = << 0 >>
    /\ attempts = << 0 >>
    /\ optimizerCalls = 0
    /\ budget = [ticks |-> ExclusionTicks, webhooks |-> MaxWebhooks, sweeps |-> MaxSweeps, recommendations |-> 0]
    /\ sweep = IdleSweep
    /\ evaluations = << >>
    /\ optimizerState = IdleOptimizer
    /\ walker = IdleWalker
    /\ clock = 0

NextExclusion ==
    \/ \E m \in DOMAIN messages, o \in WebhookOutcomes : processResendWebhook(m, o)
    \/ processDueFlowRunsBegin(1, 10, Null)
    \/ processDueFlowRunsStep(1)
    \/ processDueFlowRunsReturn(1)
    \/ \E now \in SweepTimes, o \in SuppressOptions : runHygieneSweepBegin(now, o, Null)
    \/ runHygieneSweepCommit
    \/ \E row \in ImportRows : importContactsFromCsv(row)

SpecExclusion == InitExclusion /\ [][NextExclusion]_vars

\* Inputs of the hygiene score.  Ages are minutes before the sweep; the
\* thresholds of 60 and 90 days are met exactly and passed by one minute.
\* Propensities are in hundredths.
ScoreTimes == {200000}
ProbeStatuses == {"ACTIVE", "BOUNCED", "COMPLAINED", "SUPPRESSED"}
ProbeTags == { { }, {"synthetic"} }
ProbeEventAges == {Null, 100, STALE_EVENT_THRESHOLD_DAYS * ONE_DAY_MIN,
                   STALE_EVENT_THRESHOLD_DAYS * ONE_DAY_MIN + 1}
ProbeSendAges == {Null, 100, STALE_SEND_THRESHOLD_DAYS * ONE_DAY_MIN,
                  STALE_SEND_THRESHOLD_DAYS * ONE_DAY_MIN + 1}
ProbePropensities == {Null, 0, 5, 15, 60}

\* The instant that lies age minutes before now; null stays null.
Ago(now, age) == IF age = Null THEN Null ELSE now - age

\* One contact with any status, tags, timestamps and propensity, swept with
\* any option.
InitScore ==
    /\ \E now \in ScoreTimes, status \in ProbeStatuses, tags \in ProbeTags,
          eventAge \in ProbeEventAges, sendAge \in ProbeSendAges,
          propensity \in ProbePropensities :
          contacts = << [Contact(TRUE, status, "", Ago(now, sendAge)) EXCEPT
                            !.tags = tags,
                            !.lastEventAt = Ago(now, eventAge),
                            !.propensity = propensity] >>
    /\ runs = << >>
    /\ messages = << >>
    /\ membership = { }
    /\ suppressions = << >>
    /\ decisions = << >>
    /\ tick = [p \in TickProcs |-> IdleTick]
    /\ dispatches = << >>
    /\ attempts = << >>
    /\ optimizerCalls = 0
    /\ budget = [ticks |-> 0, webhooks |-> 0, sweeps |-> ScoreSweeps, recommendations |-> 0]
    /\ sweep = IdleSweep
    /\ evaluations = << >>
    /\ optimizerState = IdleOptimizer
    /\ walker = IdleWalker
    /\ clock = 0

NextScore ==
    \/ \E now \in ScoreTimes, o \in SuppressOptions : runHygieneSweepBegin(now, o, Null)
    \/ runHygieneSweepCommit

SpecScore == InitScore /\ [][NextScore]_vars

\* Inputs of repeated sweeps
SweepLimits == {Null, 2}

\* Sweeps one after another, the only writers.  Contact 1 is ACTIVE and
\* engaged, contact 2 has bounced, contact 3 was suppressed by a webhook,
\* contact 4 is seeded data that complained, contact 5 is ACTIVE and was
\* never mailed.
SweepContacts ==
    <<  [Contact(TRUE, "ACTIVE", "", 199900) EXCEPT !.lastEventAt = 199900, !.propensity = 60],
        Contact(TRUE, "BOUNCED", "", 199900),
        Contact(TRUE, "SUPPRESSED", "", 199900),
        [Contact(TRUE, "COMPLAINED", "", 199900) EXCEPT !.tags = {"synthetic"}],
        Contact(TRUE, "ACTIVE", "", Null) >>

InitSweep ==
    /\ contacts = SweepContacts
    /\ suppressions = ensureSuppression(<< >>, 3, "suppressed", "webhook")
    /\ runs = << >>
    /\ messages = << >>
    /\ membership = { }
    /\ decisions = << >>
    /\ tick = [p \in TickProcs |-> IdleTick]
    /\ dispatches = << >>
    /\ attempts = << >>
    /\ optimizerCalls = 0
    /\ budget = [ticks |-> 0, webhooks |-> 0, sweeps |-> SweepRuns, recommendations |-> 0]
    /\ sweep = IdleSweep
    /\ evaluations = << >>
    /\ optimizerState = IdleOptimizer
    /\ walker = IdleWalker
    /\ clock = 0

NextSweep ==
    \/ \E now \in ScoreTimes, o \in SuppressOptions, limit \in SweepLimits :
          runHygieneSweepBegin(now, o, limit)
    \/ runHygieneSweepCommit

SpecSweep == InitSweep /\ [][NextSweep]_vars

\* The test list on an empty store: it is created, swept, and created again.
InitTestList ==
    /\ contacts = << >>
    /\ suppressions = << >>
    /\ runs = << >>
    /\ messages = << >>
    /\ membership = { }
    /\ decisions = << >>
    /\ tick = [p \in TickProcs |-> IdleTick]
    /\ dispatches = << >>
    /\ attempts = << >>
    /\ optimizerCalls = 0
    /\ budget = [ticks |-> 0, webhooks |-> 0, sweeps |-> TestListSweeps, recommendations |-> 0]
    /\ sweep = IdleSweep
    /\ evaluations = << >>
    /\ optimizerState = IdleOptimizer
    /\ walker = IdleWalker
    /\ clock = 0

NextTestList ==
    \/ createTestContacts
    \/ \E now \in ScoreTimes, o \in SuppressOptions : runHygieneSweepBegin(now, o, Null)
    \/ runHygieneSweepCommit

SpecTestList == InitTestList /\ [][NextTestList]_vars

\* Ticks of limit 1, one at a time, on a clock that moves in steps of
\* ClockStep minutes up to MaxClock, with events of contact 1 that start
\* the flows without optimizer.
LiveEvents == {"signup", "visit", "renewal"}
LiveLimits == {1}

InitLive ==
    /\ runs = << >>
    /\ contacts = [c \in ContactIds |->
                     IF c = 1 THEN Contact(TRUE, "ACTIVE", "America/New_York", -1500)
                     ELSE Contact(TRUE, "BOUNCED", "", Null)]
    /\ messages = << Message(1, 0, "SENT", Null, -1500) >>
    /\ membership = { <<"s1", 1>> }
    /\ suppressions = << >>
    /\ decisions = << >>
    /\ tick = [p \in TickProcs |-> IdleTick]
    /\ dispatches = << >>
    /\ attempts = << >>
    /\ optimizerCalls = 0
    /\ budget = [ticks |-> 0, webhooks |-> 0, sweeps |-> 0, recommendations |-> 0]
    /\ sweep = IdleSweep
    /\ evaluations = << >>
    /\ optimizerState = IdleOptimizer
    /\ walker = IdleWalker
    /\ clock = 0

TickLive ==
    \/ \E limit \in LiveLimits : tickAtClock(limit)
    \/ processDueFlowRunsStep(1)
    \/ processDueFlowRunsReturn(1)

NextLive ==
    \/ \E e \in LiveEvents : eventAtClock(e)
    \/ advanceClock
    \/ TickLive

\* The scheduler keeps calling the tick and lets each call finish, and time
\* keeps passing.
SpecLive == InitLive /\ [][NextLive]_vars /\ WF_vars(TickLive) /\ WF_vars(advanceClock)

\* The send step inside the 24h cooldown: contact 1 lives in New York and
\* contact 2 has no time zone; both are in segment s1 and were last mailed
\* at the same instant, 1 minute or 72 minutes less than a day before the
\* tick time, Saturday 23:58 of the second week.  Their purchases start the
\* optimizer flow.
CooldownNow == 10078
CooldownLastSent == {CooldownNow + 1 - ONE_DAY_MIN, CooldownNow + 72 - ONE_DAY_MIN}
CooldownEventTimes == {10000}

InitCooldown ==
    /\ \E sent \in CooldownLastSent :
          /\ contacts = << Contact(TRUE, "ACTIVE", "America/New_York", sent),
                           Contact(TRUE, "ACTIVE", "", sent) >>
          /\ messages = << Message(1, 0, "SENT", Null, sent), Message(2, 0, "SENT", Null, sent) >>
    /\ runs = << >>
    /\ membership = { <<"s1", 1>>, <<"s1", 2>> }
    /\ suppressions = << >>
    /\ decisions = << >>
    /\ tick = [p \in TickProcs |-> IdleTick]
    /\ dispatches = << >>
    /\ attempts = << >>
    /\ optimizerCalls = 0
    /\ budget = [ticks |-> CooldownTicks, webhooks |-> 0, sweeps |-> 0, recommendations |-> 0]
    /\ sweep = IdleSweep
    /\ evaluations = << >>
    /\ optimizerState = IdleOptimizer
    /\ walker = IdleWalker
    /\ clock = 0

NextCooldown ==
    \/ \E c \in ContactIds, t \in CooldownEventTimes :
          triggerFlowsForEvent(c, "purchase", t) /\ Len(runs') <= CooldownRuns
    \/ \E limit \in TickLimits : processDueFlowRunsBegin(1, CooldownNow, limit)
    \/ processDueFlowRunsStep(1)
    \/ processDueFlowRunsReturn(1)

SpecCooldown == InitCooldown /\ [][NextCooldown]_vars

\* Event ingestion alone: contact 1 is ACTIVE, contact 2 has bounced,
\* contact 3 is ACTIVE without an email address and no contact has id 4.
\* Events of every trigger name and of a name no flow listens to arrive at
\* two instants.
IngestContacts == {1, 2, 3, 4}
IngestEvents == {"signup", "purchase", "visit", "renewal", "refund"}
IngestTimes == {0, 10}

InitIngest ==
    /\ runs = << >>
    /\ contacts = << Contact(TRUE, "ACTIVE", "America/New_York", -1500),
                     Contact(TRUE, "BOUNCED", "", Null),
                     Contact(FALSE, "ACTIVE", "", Null) >>
    /\ messages = << Message(1, 0, "SENT", Null, -1500) >>
    /\ membership = { }
    /\ suppressions = << >>
    /\ decisions = << >>
    /\ tick = [p \in TickProcs |-> IdleTick]
    /\ dispatches = << >>
    /\ attempts = << >>
    /\ optimizerCalls = 0
    /\ budget = [ticks |-> 0, webhooks |-> 0, sweeps |-> 0, recommendations |-> 0]
    /\ sweep = IdleSweep
    /\ evaluations = << >>
    /\ optimizerState = IdleOptimizer
    /\ walker = IdleWalker
    /\ clock = 0

NextIngest ==
    \E c \in IngestContacts, e \in IngestEvents, t \in IngestTimes :
        triggerFlowsForEvent(c, e, t) /\ Len(runs') <= IngestRuns

SpecIngest == InitIngest /\ [][NextIngest]_vars

\* Inputs of the walk: step lists of up to MaxSteps steps in any storage
\* order, with gaps and repeats in the orders, and pointers on, between and
\* beyond the orders.  A DELAY has 0 or 45 minutes; a SEGMENT_FILTER names
\* no segment or s1, which contact 1 is not in.
WalkOrders == {1, 3, 4}
WalkPointers == {0, 1, 3, 4, 6}
WalkSteps ==
    { Step(o, "TRIGGER", Null, "") : o \in WalkOrders } \cup
    { Step(o, "WAIT_FOR_EVENT", Null, "") : o \in WalkOrders } \cup
    { Step(o, "DELAY", m, "") : o \in WalkOrders, m \in {0, 45} } \cup
    { Step(o, "SEGMENT_FILTER", Null, g) : o \in WalkOrders, g \in {"", "s1"} } \cup
    { Step(o, "SEND_TEMPLATE", Null, "") : o \in WalkOrders }
WalkStepLists == UNION { [1..n -> WalkSteps] : n \in 0..MaxSteps }

InitWalk ==
    /\ \E steps \in WalkStepLists, pointer \in WalkPointers :
          walker = [pc |-> "looping",
                    flow |-> [steps |-> steps, delayMinutes |-> Null, segmentId |-> ""],
                    start |-> pointer, pointer |-> pointer,
                    iterations |-> 0, visited |-> << >>]
    /\ contacts = << Contact(TRUE, "ACTIVE", "", Null) >>
    /\ membership = { }
    /\ runs = << >>
    /\ messages = << >>
    /\ suppressions = << >>
    /\ decisions = << >>
    /\ tick = [p \in TickProcs |-> IdleTick]
    /\ dispatches = << >>
    /\ attempts = << >>
    /\ optimizerCalls = 0
    /\ budget = [ticks |-> 0, webhooks |-> 0, sweeps |-> 0, recommendations |-> 0]
    /\ sweep = IdleSweep
    /\ evaluations = << >>
    /\ optimizerState = IdleOptimizer
    /\ clock = 0

NextWalk == walkIteration

SpecWalk == InitWalk /\ [][NextWalk]_vars

\* The optimizer on a store with history.  Contact 1 (seeded, segment a) was
\* mailed in hour 1 and in hour 2 of the week; contact 2 has no tag and was
\* mailed in hour 1 a week later; contact 3 lives in New York and is tagged
\* with a segment that has no sent message (its one message is scheduled);
\* contact 4 (segment c) was mailed in hour 3 and has bounced since; contact 5
\* lives in New York, carries the tag "segment=" and was mailed 23 hours
\* before the reference date.  No outcome has been recorded.
OptimizerContacts ==
    <<  [Contact(TRUE, "ACTIVE", "", 120) EXCEPT !.tags = {"synthetic", "segment=a"}],
        Contact(TRUE, "ACTIVE", "", 10140),
        [Contact(TRUE, "ACTIVE", "America/New_York", Null) EXCEPT !.tags = {"segment=b"}],
        [Contact(TRUE, "BOUNCED", "", 180) EXCEPT !.tags = {"segment=c"}],
        [Contact(TRUE, "ACTIVE", "America/New_York", 8820) EXCEPT !.tags = {"segment="}] >>

OptimizerMessages ==
    <<  Message(1, 0, "SENT", Null, 60),
        Message(1, 0, "SENT", Null, 120),
        Message(4, 0, "SENT", Null, 180),
        Message(3, 0, "SCHEDULED", 10300, Null),
        Message(2, 0, "SENT", Null, 10140),
        Message(5, 0, "SENT", Null, 8820) >>

\* A store in which nothing has been sent yet.
UnsentMessages == << Message(3, 0, "SCHEDULED", 10300, Null) >>

\* recommendSendTime is called for a stored contact or for an unknown id.
RecommendIds == (DOMAIN OptimizerContacts) \cup {99}
ReferenceDates == {10200}
OptimizerClock == {10200, 10201}

InitOptimizer ==
    /\ runs = << >>
    /\ contacts = OptimizerContacts
    /\ messages \in {OptimizerMessages, UnsentMessages}
    /\ membership = { }
    /\ suppressions = << >>
    /\ decisions = << >>
    /\ tick = [p \in TickProcs |-> IdleTick]
    /\ dispatches = << >>
    /\ attempts = << >>
    /\ optimizerCalls = 0
    /\ budget = [ticks |-> 0, webhooks |-> 0, sweeps |-> 0, recommendations |-> MaxRecommendations]
    /\ sweep = IdleSweep
    /\ evaluations = << >>
    /\ optimizerState = IdleOptimizer
    /\ walker = IdleWalker
    /\ clock = 0

NextOptimizer ==
    \/ \E c \in RecommendIds, referenceDate \in ReferenceDates, now \in OptimizerClock :
          recommendSendTimeCall(c, referenceDate, now)
    \/ resetOptimizerCache
    \/ \E clicked \in SUBSET (DOMAIN OptimizerMessages) : generateClicks(clicked)

SpecOptimizer == InitOptimizer /\ [][NextOptimizer]_vars

\* The optimizer called again and again for the seeded contact 1 and for the
\* bounced contact 4, while outcomes are recorded and the cache is reset.
CacheIds == {1, 4}

InitCache ==
    /\ runs = << >>
    /\ contacts = OptimizerContacts
    /\ messages = OptimizerMessages
    /\ membership = { }
    /\ suppressions = << >>
    /\ decisions = << >>
    /\ tick = [p \in TickProcs |-> IdleTick]
    /\ dispatches = << >>
    /\ attempts = << >>
    /\ optimizerCalls = 0
    /\ budget = [ticks |-> 0, webhooks |-> 0, sweeps |-> 0,
                 recommendations |-> CacheRecommendations]
    /\ sweep = IdleSweep
    /\ evaluations = << >>
    /\ optimizerState = IdleOptimizer
    /\ walker = IdleWalker
    /\ clock = 0

NextCache ==
    \/ \E c \in CacheIds, referenceDate \in ReferenceDates, now \in OptimizerClock :
          recommendSendTimeCall(c, referenceDate, now)
    \/ resetOptimizerCache
    \/ \E clicked \in SUBSET (DOMAIN OptimizerMessages) : generateClicks(clicked)

SpecCache == InitCache /\ [][NextCache]_vars

----------------------------------------------------------------------------
(* Properties of the Flow Execution Engine *)

MessagesOfRun(msgs, r) == { i \in DOMAIN msgs : msgs[i].run = r }

IsTerminal(run) == run.status \in TerminalStatuses

\* A tick process is about to process run r.
Processing(p, r) ==
    /\ tick[p].pc = "running"
    /\ tick[p].idx <= Len(tick[p].batch)
    /\ tick[p].batch[tick[p].idx].id = r

\* This step is a processDueFlowRunsStep of tick process p.
StepOf(p) == tick[p].pc = "running" /\ tick'[p].idx = tick[p].idx + 1

\* C1: with ticks run one at a time, every run causes at most one transport
\* call and at most one message record, and once a run is COMPLETED,
\* CANCELLED or FAILED no step executes its send step, calls the transport
\* for it or creates a message for it.
C1_AtMostOneDispatch ==
    [][\A r \in DOMAIN runs :
          /\ dispatches'[r] <= 1
          /\ attempts'[r] <= 1
          /\ Cardinality(MessagesOfRun(messages', r)) <= 1
          /\ IsTerminal(runs[r]) =>
                /\ dispatches'[r] = dispatches[r]
                /\ attempts'[r] = attempts[r]
                /\ MessagesOfRun(messages', r) = MessagesOfRun(messages, r)]_vars

\* C1 witness: a run was dispatched and completed by an earlier tick, and a
\* later tick whose now is past the run's scheduledAt has loaded its batch.
C1_Witness ==
    \E r \in DOMAIN runs :
        /\ runs[r].status = "COMPLETED"
        /\ dispatches[r] = 1
        /\ Cardinality(MessagesOfRun(messages, r)) = 1
        /\ tick[1].pc = "running"
        /\ tick[1].idx = 1
        /\ runs[r].scheduledAt <= tick[1].now

\* C2: COMPLETED, CANCELLED and FAILED are absorbing: no step changes any
\* field of a run that has one of these statuses.
C2_TerminalAbsorbing ==
    [][\A r \in DOMAIN runs : IsTerminal(runs[r]) => runs'[r] = runs[r]]_vars

\* C2 witness: a run is CANCELLED or FAILED and a later tick, whose now is
\* past the run's scheduledAt, has processed its whole batch.
C2_Witness ==
    \E r \in DOMAIN runs :
        /\ runs[r].status \in {"CANCELLED", "FAILED"}
        /\ tick[1].pc = "running"
        /\ tick[1].idx > Len(tick[1].batch)
        /\ tick[1].last.run # r
        /\ \A i \in DOMAIN tick[1].batch : tick[1].batch[i].id # r
        /\ runs[r].scheduledAt <= tick[1].now

\* C3: with overlapping ticks a run is dispatched at most once per tick
\* process, and a send step executed for a run that is already terminal is
\* always that of a tick which loaded the run while it was PENDING or
\* WAITING and never looked at its status again.
C3_DuplicateOnlyFromStaleBatch ==
    [][\A r \in DOMAIN runs :
          /\ dispatches'[r] <= Cardinality(TickProcs)
          /\ (attempts'[r] > attempts[r] /\ IsTerminal(runs[r])) =>
                \E p \in TickProcs :
                    /\ Processing(p, r)
                    /\ tick[p].batch[tick[p].idx].status \in DueStatuses]_vars

\* C3 witness: both ticks called the transport for the same run; the first
\* completed it and created its message, the second found the message
\* already there and overwrote COMPLETED with FAILED.
C3_Witness ==
    \E r \in DOMAIN runs :
        /\ dispatches[r] = 2
        /\ attempts[r] = 2
        /\ runs[r].status = "FAILED"
        /\ runs[r].completedAt # Null
        /\ Cardinality(MessagesOfRun(messages, r)) = 1

SortedByScheduledAt(batch) ==
    \A i, j \in DOMAIN batch : i < j =>
        /\ batch[i].id # batch[j].id
        /\ batch[i].scheduledAt <= batch[j].scheduledAt

\* The batch of a running tick is what the due-run query of the claim gives.
C4_BatchIsDuePrefix(p) ==
    LET batch == tick[p].batch
        now == tick[p].now
        ids == { batch[i].id : i \in DOMAIN batch }
    IN  /\ Len(batch) <= tick[p].limit
        /\ tick[p].limit = IF tick[p].limitOption = Null THEN 20 ELSE tick[p].limitOption
        /\ tick[p].summary.evaluated = Len(batch)
        /\ SortedByScheduledAt(batch)
        /\ \A i \in DOMAIN batch :
              /\ batch[i].status \in {"PENDING", "WAITING"}
              /\ batch[i].scheduledAt <= now
              /\ i >= tick[p].idx =>
                    /\ runs[batch[i].id].status = batch[i].status
                    /\ runs[batch[i].id].scheduledAt = batch[i].scheduledAt
                    /\ runs[batch[i].id].nextStepOrder = batch[i].nextStepOrder
        /\ \A r \in 1..tick[p].known :
              (r \notin ids /\ runs[r].status \in {"PENDING", "WAITING"}
                            /\ runs[r].scheduledAt <= now) =>
                 /\ Len(batch) = tick[p].limit
                 /\ \A i \in DOMAIN batch : batch[i].scheduledAt <= runs[r].scheduledAt

\* C4: the batch of a tick is the runs that are PENDING or WAITING with
\* scheduledAt <= now, in ascending scheduledAt order, cut at limit (20 by
\* default); evaluated is its length; a step of the tick changes no run
\* other than the batch entry it processes.
C4_SelectsDueRuns ==
    [][/\ tick'[1].pc = "running" => C4_BatchIsDuePrefix(1)'
       /\ \A r \in DOMAIN runs : runs'[r] # runs[r] => Processing(1, r)]_vars

\* C4 witness: a tick with limit 1 took the earlier of two due runs and
\* left the later one out.
C4_Witness ==
    /\ tick[1].pc = "running"
    /\ tick[1].limit = 1
    /\ Len(tick[1].batch) = 1
    /\ tick[1].idx = 2
    /\ \E r \in DOMAIN runs :
          /\ r # tick[1].batch[1].id
          /\ runs[r].status = "WAITING"
          /\ runs[r].scheduledAt <= tick[1].now
          /\ runs[r].scheduledAt > tick[1].batch[1].scheduledAt

\* C5: when processing a run raises an error the run is FAILED with the
\* error's message as cancelledReason, failed grows by one and no other
\* counter changes, the tick goes on with the rest of its batch, and it
\* returns only after the last run of the batch, with every run counted.
C5_FailureDoesNotAbortBatch ==
    [][/\ \A r \in DOMAIN runs :
             (Processing(1, r) /\ StepOf(1) /\ tick'[1].last.error # NoError) =>
                /\ runs'[r].status = "FAILED"
                /\ runs'[r].cancelledReason = tick'[1].last.error
                /\ tick'[1].summary = [tick[1].summary EXCEPT !.failed = @ + 1]
                /\ tick'[1].pc = "running"
                /\ tick'[1].batch = tick[1].batch
       /\ tick'[1].pc \in {"idle", "running"}
       /\ (tick[1].pc = "running" /\ tick'[1].pc = "idle") =>
             /\ tick[1].idx = Len(tick[1].batch) + 1
             /\ tick[1].summary.evaluated =
                   tick[1].summary.completed + tick[1].summary.rescheduled +
                   tick[1].summary.cancelled + tick[1].summary.failed]_vars

\* C5 witness: the first run of a batch failed on the transport and the
\* second run of the same batch was then processed without an error.
C5_Witness ==
    /\ tick[1].pc = "running"
    /\ Len(tick[1].batch) = 2
    /\ tick[1].idx = 3
    /\ tick[1].summary.failed = 1
    /\ runs[tick[1].batch[1].id].status = "FAILED"
    /\ runs[tick[1].batch[1].id].cancelledReason = "Resend service returned an error"
    /\ tick[1].last.run = tick[1].batch[2].id
    /\ tick[1].last.error = NoError

\* The flow definition as the claims read it.
TypeAt(f, order) == StepAt(Flows[f].steps, order).type

HasStep(f, order) == \E i \in DOMAIN Flows[f].steps : Flows[f].steps[i].order = order

ResolvedMinutes(f, order) ==
    LET step == StepAt(Flows[f].steps, order)
    IN  IF step.minutes # Null THEN step.minutes
        ELSE IF Flows[f].delayMinutes # Null THEN Flows[f].delayMinutes ELSE 0

ResolvedSegment(f, order) ==
    LET step == StepAt(Flows[f].steps, order)
    IN  IF step.segmentId # "" THEN step.segmentId ELSE Flows[f].segmentId

NextAfter(f, order) ==
    IF \E i \in DOMAIN Flows[f].steps : Flows[f].steps[i].order > order
    THEN CHOOSE o \in StepOrders(Flows[f].steps) :
            o > order /\ \A q \in StepOrders(Flows[f].steps) : q > order => o <= q
    ELSE order + 1

\* The steps the current step of tick 1 looked at start at the loaded pointer.
VisitedFromPointer ==
    LET L == tick[1].batch[tick[1].idx]
        v == tick'[1].last.visited
    IN  IF HasStep(L.flow, L.nextStepOrder)
        THEN Len(v) >= 1 /\ v[1] = L.nextStepOrder
        ELSE v = << >>

\* The walk went on from the i-th visited step to the step after it, or
\* ran off the end when no step follows.
ContinuedPast(L, v, i) ==
    IF HasStep(L.flow, NextAfter(L.flow, v[i]))
    THEN i < Len(v) /\ v[i + 1] = NextAfter(L.flow, v[i])
    ELSE i = Len(v) /\ runs'[L.id].status = "COMPLETED"

NothingSent(r) ==
    /\ messages' = messages
    /\ dispatches' = dispatches
    /\ attempts' = attempts
    /\ contacts' = contacts

\* C6: a DELAY step with resolved minutes m > 0 that a tick comes to ends
\* the processing of the run: the run is WAITING with scheduledAt = now + m
\* and nextStepOrder the next step after the DELAY, it is counted as
\* rescheduled and nothing is sent.
C6_DelayReschedules ==
    [][StepOf(1) =>
         LET L == tick[1].batch[tick[1].idx]
             v == tick'[1].last.visited
         IN  /\ VisitedFromPointer
             /\ \A i \in DOMAIN v :
                   (TypeAt(L.flow, v[i]) = "DELAY" /\ ResolvedMinutes(L.flow, v[i]) > 0) =>
                      /\ i = Len(v)
                      /\ runs'[L.id].status = "WAITING"
                      /\ runs'[L.id].scheduledAt = tick[1].now + ResolvedMinutes(L.flow, v[i])
                      /\ runs'[L.id].nextStepOrder = NextAfter(L.flow, v[i])
                      /\ tick'[1].summary = [tick[1].summary EXCEPT !.rescheduled = @ + 1]
                      /\ NothingSent(L.id)]_vars

\* C6 witness: the scenario of the test: the run of flow 1 at its DELAY(45)
\* is WAITING until now + 45 with the pointer on the SEND_TEMPLATE step.
C6_Witness ==
    /\ tick[1].pc = "running"
    /\ tick[1].last.result = "rescheduled"
    /\ tick[1].last.visited = << 2 >>
    /\ runs[tick[1].last.run].flow = 1
    /\ runs[tick[1].last.run].status = "WAITING"
    /\ runs[tick[1].last.run].scheduledAt = tick[1].now + 45
    /\ runs[tick[1].last.run].nextStepOrder = 3

\* C7: a WAITING run is changed, sent or cancelled only by a tick whose now
\* is at or after the run's scheduledAt.
C7_DelaysHonoured ==
    [][\A r \in DOMAIN runs :
          (/\ runs[r].status = "WAITING"
           /\ \/ runs'[r] # runs[r]
              \/ dispatches'[r] # dispatches[r]
              \/ attempts'[r] # attempts[r]
              \/ MessagesOfRun(messages', r) # MessagesOfRun(messages, r)) =>
             /\ Processing(1, r)
             /\ tick[1].now >= runs[r].scheduledAt]_vars

\* C7 witness: a tick whose now is earlier than the scheduledAt of a run
\* that an earlier tick put into WAITING has finished its batch.
C7_Witness ==
    \E r \in DOMAIN runs :
        /\ runs[r].status = "WAITING"
        /\ tick[1].pc = "running"
        /\ tick[1].idx > Len(tick[1].batch)
        /\ tick[1].last.run # r
        /\ tick[1].now < runs[r].scheduledAt
        /\ runs[r].scheduledAt = 10 + 45

\* C8: a DELAY step with resolved minutes <= 0 is passed within the tick:
\* the walk goes on with the following step, and a run left WAITING by a
\* tick is always left so by a DELAY with positive minutes.
C8_ZeroDelayContinues ==
    [][StepOf(1) =>
         LET L == tick[1].batch[tick[1].idx]
             v == tick'[1].last.visited
         IN  /\ \A i \in DOMAIN v :
                   (TypeAt(L.flow, v[i]) = "DELAY" /\ ResolvedMinutes(L.flow, v[i]) <= 0) =>
                      ContinuedPast(L, v, i)
             /\ runs'[L.id].status = "WAITING" =>
                   /\ v # << >>
                   /\ TypeAt(L.flow, v[Len(v)]) = "DELAY"
                   /\ ResolvedMinutes(L.flow, v[Len(v)]) > 0]_vars

\* C8 witness: the run of flow 2 (fixed delay 30, DELAY step with minutes 0)
\* went past the DELAY and the SEGMENT_FILTER to its send step in one tick.
C8_Witness ==
    /\ tick[1].pc = "running"
    /\ tick[1].last.run # 0
    /\ runs[tick[1].last.run].flow = 2
    /\ tick[1].last.visited = << 3, 5, 8 >>
    /\ runs[tick[1].last.run].status = "COMPLETED"

\* C9: at a SEGMENT_FILTER step whose segment resolves and does not contain
\* the contact, the run is CANCELLED with the reason of the claim, its
\* pointer stays on the filter step, it is counted as cancelled and nothing
\* is sent; otherwise the walk goes on with the following step.
C9_SegmentFilter ==
    [][StepOf(1) =>
         LET L == tick[1].batch[tick[1].idx]
             v == tick'[1].last.visited
         IN  \A i \in DOMAIN v : TypeAt(L.flow, v[i]) = "SEGMENT_FILTER" =>
                IF /\ ResolvedSegment(L.flow, v[i]) # ""
                   /\ <<ResolvedSegment(L.flow, v[i]), runs[L.id].contact>> \notin membership
                THEN /\ i = Len(v)
                     /\ runs'[L.id].status = "CANCELLED"
                     /\ runs'[L.id].cancelledReason = "Contact no longer in segment"
                     /\ runs'[L.id].nextStepOrder = v[i]
                     /\ tick'[1].summary = [tick[1].summary EXCEPT !.cancelled = @ + 1]
                     /\ NothingSent(L.id)
                ELSE ContinuedPast(L, v, i)]_vars

\* C9 witness: the run of flow 2 was cancelled at its filter on s1.
C9_Witness ==
    /\ tick[1].pc = "running"
    /\ tick[1].last.result = "cancelled"
    /\ tick[1].last.visited = << 3, 5 >>
    /\ runs[tick[1].last.run].status = "CANCELLED"
    /\ runs[tick[1].last.run].cancelledReason = "Contact no longer in segment"
    /\ runs[tick[1].last.run].nextStepOrder = 5
    /\ tick[1].summary.cancelled = 1

\* C10: a send step for a loaded contact without email or not ACTIVE
\* cancels the run with a reason that names the cause, and calls neither
\* the optimizer nor the transport and creates no message.
C10_IneligibleContactCancelled ==
    [][StepOf(1) =>
         LET L == tick[1].batch[tick[1].idx]
             v == tick'[1].last.visited
         IN  (/\ v # << >>
              /\ TypeAt(L.flow, v[Len(v)]) = "SEND_TEMPLATE"
              /\ (~L.contact.email \/ L.contact.status # "ACTIVE")) =>
                /\ runs'[L.id].status = "CANCELLED"
                /\ runs'[L.id].cancelledReason =
                      IF ~L.contact.email THEN "Contact missing email"
                      ELSE "Contact status is " \o L.contact.status
                /\ optimizerCalls' = optimizerCalls
                /\ decisions' = decisions
                /\ messages' = messages
                /\ dispatches' = dispatches
                /\ contacts' = contacts]_vars

\* C10 witness: a run reached its send step after its contact had bounced
\* and was cancelled without a transport call.
C10_Witness ==
    \E r \in DOMAIN runs :
        /\ runs[r].status = "CANCELLED"
        /\ runs[r].cancelledReason = "Contact status is BOUNCED"
        /\ attempts[r] = 1
        /\ dispatches[r] = 0
        /\ MessagesOfRun(messages, r) = {}

----------------------------------------------------------------------------
(* Properties of the send step *)

\* The run that tick 1 is about to process.
CurrentRun == tick[1].batch[tick[1].idx]

\* This step is a step of tick 1 that reaches the SEND_TEMPLATE step of its
\* run with a loaded contact that has an email and is ACTIVE.
AtSendStep ==
    /\ StepOf(1)
    /\ tick'[1].last.visited # << >>
    /\ TypeAt(CurrentRun.flow, tick'[1].last.visited[Len(tick'[1].last.visited)]) = "SEND_TEMPLATE"
    /\ CurrentRun.contact.email
    /\ CurrentRun.contact.status = "ACTIVE"

TransportErrors == { TransportErrorMessage(t) : t \in TransportResults \ {"ok"} }

\* Exactly one message was appended by this step.
OneMessageCreated ==
    /\ Len(messages') = Len(messages) + 1
    /\ SubSeq(messages', 1, Len(messages)) = messages

\* The three writes of a successful dispatch, and its count in the summary.
DispatchSucceeded(r, c) ==
    /\ OneMessageCreated
    /\ messages'[Len(messages')].run = r
    /\ messages'[Len(messages')].contact = c
    /\ messages'[Len(messages')].status = "SENT"
    /\ messages'[Len(messages')].sentAt # Null
    /\ contacts' = [contacts EXCEPT ![c].lastMessageSentAt = messages'[Len(messages')].sentAt]
    /\ runs'[r].status = "COMPLETED"
    /\ runs'[r].completedAt = tick[1].now
    /\ tick'[1].last.error = NoError
    /\ tick'[1].summary = [tick[1].summary EXCEPT !.completed = @ + 1]

\* A dispatch whose transport call failed: none of the three writes.
DispatchFailed(r) ==
    /\ tick'[1].last.error \in TransportErrors
    /\ messages' = messages
    /\ contacts' = contacts
    /\ runs'[r].status = "FAILED"
    /\ runs'[r].cancelledReason = tick'[1].last.error
    /\ tick'[1].summary = [tick[1].summary EXCEPT !.failed = @ + 1]

\* The transport was called once for run r in this step, with one of its
\* two outcomes.
ImmediateDispatch(r, c) ==
    /\ dispatches'[r] = dispatches[r] + 1
    /\ DispatchSucceeded(r, c) \/ DispatchFailed(r)

\* C11: with the optimizer disabled, a send step for an ACTIVE contact with
\* an email calls the transport exactly once and not the optimizer; on
\* success one SENT message linked to the run is created, the contact's
\* lastMessageSentAt is set to its sentAt and the run is COMPLETED and
\* counted as completed; otherwise none of the three writes is made.
C11_ImmediateSend ==
    [][(AtSendStep /\ ~Flows[CurrentRun.flow].useOptimizer) =>
          /\ ImmediateDispatch(CurrentRun.id, CurrentRun.contactId)
          /\ optimizerCalls' = optimizerCalls
          /\ decisions' = decisions]_vars

\* C11 witness: the run of flow 1 (optimizer off) was sent by a tick whose
\* batch was that run alone: summary completed 1, failed 0, rescheduled 0.
C11_Witness ==
    /\ tick[1].pc = "running"
    /\ tick[1].last.run # 0
    /\ runs[tick[1].last.run].flow = 1
    /\ runs[tick[1].last.run].status = "COMPLETED"
    /\ dispatches[tick[1].last.run] = 1
    /\ \E i \in DOMAIN messages :
          /\ messages[i].run = tick[1].last.run
          /\ messages[i].status = "SENT"
          /\ contacts[1].lastMessageSentAt = messages[i].sentAt
    /\ tick[1].summary = [ZeroSummary EXCEPT !.evaluated = 1, !.completed = 1]

\* C12: when the transport fails in a dispatch the run is FAILED with the
\* transport's error message, no message is created, the contact is not
\* changed, and failed grows by exactly one while no other counter moves.
C12_TransportFailure ==
    [][(StepOf(1) /\ tick'[1].last.error \in TransportErrors) =>
          /\ dispatches'[CurrentRun.id] = dispatches[CurrentRun.id] + 1
          /\ runs'[CurrentRun.id].status = "FAILED"
          /\ runs'[CurrentRun.id].cancelledReason = tick'[1].last.error
          /\ messages' = messages
          /\ contacts' = contacts
          /\ tick'[1].summary = [tick[1].summary EXCEPT !.failed = @ + 1]]_vars

\* C12 witness: the transport failed for the only run of the batch.
C12_Witness ==
    /\ tick[1].pc = "running"
    /\ tick[1].last.error = "Resend service returned an error"
    /\ runs[tick[1].last.run].status = "FAILED"
    /\ runs[tick[1].last.run].cancelledReason = "Resend service returned an error"
    /\ MessagesOfRun(messages, tick[1].last.run) = {}
    /\ dispatches[tick[1].last.run] = 1
    /\ contacts[1].lastMessageSentAt = -1500
    /\ tick[1].summary = [ZeroSummary EXCEPT !.evaluated = 1, !.failed = 1]

\* C13: when the recommendation call of a send step fails (the optimizer
\* was called for a stored ACTIVE contact and persisted no decision), the
\* run is neither cancelled nor failed by it: the step dispatches at once,
\* as it does without a recommendation.
C13_OptimizerFailureSwallowed ==
    [][(/\ AtSendStep
        /\ optimizerCalls' = optimizerCalls + 1
        /\ decisions' = decisions
        /\ contacts[CurrentRun.contactId].status = "ACTIVE") =>
          /\ ImmediateDispatch(CurrentRun.id, CurrentRun.contactId)
          /\ runs'[CurrentRun.id].status # "CANCELLED"]_vars

\* C13 witness: the run of flow 2 (optimizer on) was sent and completed in
\* a step whose optimizer call left no decision.
C13_Witness ==
    /\ tick[1].pc = "running"
    /\ tick[1].last.run # 0
    /\ runs[tick[1].last.run].flow = 2
    /\ runs[tick[1].last.run].status = "COMPLETED"
    /\ optimizerCalls = 1
    /\ decisions = << >>
    /\ contacts[1].status = "ACTIVE"
    /\ dispatches[tick[1].last.run] = 1
    /\ \E i \in DOMAIN messages :
          messages[i].run = tick[1].last.run /\ messages[i].status = "SENT"

\* C14: a send step whose recommendation (the decision it persisted) lies
\* more than 5 minutes after now creates one SCHEDULED message for that
\* instant and completes the run without calling the transport or changing
\* the contact; with no recommendation, or one at most 5 minutes after now,
\* the step dispatches at once.
C14_ScheduleThreshold ==
    [][AtSendStep =>
          /\ Len(decisions') <= Len(decisions) + 1
          /\ IF /\ Len(decisions') = Len(decisions) + 1
                /\ decisions'[Len(decisions')].recommendedAt - tick[1].now > 5
             THEN /\ OneMessageCreated
                  /\ messages'[Len(messages')].run = CurrentRun.id
                  /\ messages'[Len(messages')].status = "SCHEDULED"
                  /\ messages'[Len(messages')].scheduledSendAt =
                        decisions'[Len(decisions')].recommendedAt
                  /\ messages'[Len(messages')].sentAt = Null
                  /\ runs'[CurrentRun.id].status = "COMPLETED"
                  /\ dispatches' = dispatches
                  /\ contacts' = contacts
             ELSE ImmediateDispatch(CurrentRun.id, CurrentRun.contactId)]_vars

\* C14 witness: at now = 10 the recommendation for hour 1 is instant 60, 50
\* minutes ahead: the run is COMPLETED with a SCHEDULED message for 60 and
\* no transport call.
C14_Witness ==
    /\ tick[1].pc = "running"
    /\ tick[1].now = 10
    /\ tick[1].last.run # 0
    /\ runs[tick[1].last.run].status = "COMPLETED"
    /\ dispatches[tick[1].last.run] = 0
    /\ contacts[1].lastMessageSentAt = -1500
    /\ \E i \in DOMAIN messages :
          /\ messages[i].run = tick[1].last.run
          /\ messages[i].status = "SCHEDULED"
          /\ messages[i].scheduledSendAt = 60
    /\ decisions # << >>
    /\ decisions[Len(decisions)].recommendedAt = 60

----------------------------------------------------------------------------
(* Properties of contact eligibility *)

ExcludedStatuses == {"BOUNCED", "COMPLAINED", "SUPPRESSED"}

C16_SameEligibility ==
    \A c \in DOMAIN contacts :
        (sendBlockedReason(contacts[c]) = "") <=>
            (c \in partitionContactsByEligibility(DOMAIN contacts).sendable)

----------------------------------------------------------------------------
(* Properties of the send-time optimizer *)

\* A call of recommendSendTime has just returned something new.
Returned == optimizerState'.last # optimizerState.last

\* A call has just stored an OptimizerDecision; Decided is that record.
Recorded == Len(decisions') = Len(decisions) + 1

Decided == decisions'[Len(decisions')]

\* The histograms the call that has just returned worked with.
UsedData == optimizerState'.histogramCache[1].data

\* C17: recommendSendTime fails with a not-found error for an unknown
\* contact; for a stored contact that is not ACTIVE it returns hour null,
\* instant null, score 0 and throttled false, and leaves the histogram cache
\* as it was.
C17_InactiveOrMissing ==
    [][Returned =>
        LET last == optimizerState'.last
        IN  /\ last.contact \notin DOMAIN contacts =>
                  /\ last.result = "Contact not found"
                  /\ decisions' = decisions
            /\ (last.contact \in DOMAIN contacts /\ contacts[last.contact].status # "ACTIVE") =>
                  /\ last.result = "ok"
                  /\ last.recommendedHour = Null
                  /\ last.recommendedAt = Null
                  /\ last.score.num = 0
                  /\ last.throttled = FALSE
                  /\ decisions' = decisions
                  /\ optimizerState'.histogramCache = optimizerState.histogramCache]_vars

\* The bounced contact 4 got the inactive answer while the cache held
\* histograms older than the clicks now stored.
C17_Witness ==
    /\ optimizerState.last.contact = 4
    /\ optimizerState.last.reason = "Contact not active"
    /\ optimizerState.histogramCache # << >>
    /\ optimizerState.histogramCache[1].data # buildHistograms(messages, contacts)
    /\ Len(decisions) = 1

\* The contact carries a tag segment=<x> and the histogram of segment x in
\* the data has a recorded send.
SegmentWithSends(contact, data) ==
    \E tag \in contact.tags \cap SegmentTags :
        /\ SplitValue(tag) \in DOMAIN data.segments
        /\ \E h \in Hours : data.segments[SplitValue(tag)].sends[h] >= 1

\* C18: for an ACTIVE contact the hour is chosen from the histogram of the
\* contact's segment exactly when the contact has a segment tag and that
\* histogram has a recorded send, and from the global histogram otherwise.
C18_SegmentSelection ==
    [][Recorded =>
        LET contact == contacts[Decided.contact]
            expected == IF SegmentWithSends(contact, UsedData)
                        THEN UsedData.segments[getSegmentTag(contact.tags)]
                        ELSE UsedData.global
            best == pickBestHour(expected, UsedData.global)
        IN  /\ Decided.usedSegmentHistogram <=> SegmentWithSends(contact, UsedData)
            /\ Decided.recommendedHour = best.hour
            /\ RatioEqual(optimizerState'.last.score, best.score)]_vars

\* Contact 1 got an hour from the histogram of segment a that the global
\* histogram would not have given.
C18_Witness ==
    /\ Len(decisions) = 1
    /\ decisions[1].contact = 1
    /\ decisions[1].usedSegmentHistogram
    /\ optimizerState.histogramCache # << >>
    /\ decisions[1].recommendedHour #
          pickBestHour(optimizerState.histogramCache[1].data.global,
                       optimizerState.histogramCache[1].data.global).hour

\* The histogram a recorded decision was taken from.
SelectedHistogram ==
    IF Decided.usedSegmentHistogram THEN UsedData.segments[Decided.segment]
    ELSE UsedData.global

\* prior = totalClicks / totalSends, or 0.05 without sends
C19_Prior(histogram) ==
    IF \A h \in Hours : histogram.sends[h] = 0 THEN Ratio(5, 100)
    ELSE Ratio(Sum(histogram.clicks, 0, 167), Sum(histogram.sends, 0, 167))

\* (clicks[h] + 5 * prior) / (sends[h] + 5)
C19_Score(histogram, prior, h) ==
    Ratio(histogram.clicks[h] * prior.den + 5 * prior.num,
          (histogram.sends[h] + 5) * prior.den)

\* C19: the recommended hour is the lowest hour of the week whose smoothed
\* score is at least the score of every other hour, and the returned score is
\* the score of that hour; for a histogram without sends it is hour 0 with
\* score 0.05.
C19_LowestBestHour ==
    [][Recorded =>
        \A H \in {SelectedHistogram}, chosen \in {Decided.recommendedHour} :
          \A prior \in {C19_Prior(H)} :
            /\ chosen \in Hours
            /\ \A best \in {C19_Score(H, prior, chosen)} :
                  /\ \A h \in Hours : ~RatioGreater(C19_Score(H, prior, h), best)
                  /\ \A h \in Hours : h < chosen => RatioGreater(best, C19_Score(H, prior, h))
                  /\ RatioEqual(optimizerState'.last.score, best)
            /\ (\A h \in Hours : H.sends[h] = 0) =>
                  /\ chosen = 0
                  /\ RatioEqual(optimizerState'.last.score, Ratio(5, 100))]_vars

\* Contact 1 got hour 2 with score 7/12 from the histogram of segment a,
\* in which only the message of hour 2 was clicked.
C19_Witness ==
    /\ Len(decisions) = 1
    /\ decisions[1].contact = 1
    /\ decisions[1].usedSegmentHistogram
    /\ decisions[1].recommendedHour = 2
    /\ RatioEqual(optimizerState.last.score, Ratio(7, 12))

\* The histograms of the messages now stored.
StoredHistograms ==
    UNION { {data.global} \cup { data.segments[name] : name \in DOMAIN data.segments } :
            data \in {buildHistograms(messages, contacts)} }

\* A histogram with sends and without any click.
NoClicks(histogram) ==
    /\ \A h \in Hours : histogram.clicks[h] = 0
    /\ \E h \in Hours : histogram.sends[h] # 0

\* C20 as stated: in a histogram without clicks an hour with more recorded
\* sends scores strictly lower than an hour with fewer.
C20_StrictlyDecreasing ==
    \A H \in StoredHistograms :
        NoClicks(H) =>
            \A prior \in {computePrior(H)} :
                \A h1, h2 \in Hours :
                    H.sends[h1] > H.sends[h2] =>
                        RatioGreater(scoreHistogram(h2, H, prior),
                                     scoreHistogram(h1, H, prior))

\* C20, amended: in a histogram with sends and without any click the prior is
\* 0 and every hour scores exactly 0 whatever its sends, so an hour with more
\* recorded sends never scores higher, and not lower, than one with fewer.
C20_ZeroScores ==
    \A H \in StoredHistograms :
        NoClicks(H) =>
            \A prior \in {computePrior(H)} :
                /\ prior.num = 0
                /\ \A h \in Hours : scoreHistogram(h, H, prior).num = 0

\* Nothing was clicked, hour 1 has two sends and hour 2 one in the global
\* histogram, and contact 2 got hour 0 with score 0 from it.
C20_Witness ==
    /\ Len(decisions) = 1
    /\ decisions[1].contact = 2
    /\ ~decisions[1].usedSegmentHistogram
    /\ decisions[1].recommendedHour = 0
    /\ optimizerState.last.score.num = 0
    /\ \E H \in StoredHistograms : NoClicks(H) /\ H.sends[1] = 2 /\ H.sends[2] = 1

\* The weekday/hour, as an hour of the week, that the clocks of the zone show
\* at an instant; at the full hour only.
LocalHourOfWeek(instant, timezone) ==
    IF (instant + TzOffsetMinutes(timezone)) % 60 = 0
    THEN hourOfWeek(instant + TzOffsetMinutes(timezone))
    ELSE Null

\* C21: for an ACTIVE contact without a prior send the recommended instant is
\* strictly after the reference time, at most 7 days after it, and is an
\* occurrence of the chosen weekday/hour in the contact's timezone (UTC when
\* unset).
C21_NextOccurrence ==
    [][Recorded =>
        LET contact == contacts[Decided.contact]
        IN  contact.lastMessageSentAt = Null =>
              /\ Decided.recommendedAt > Decided.generatedAt
              /\ Decided.recommendedAt <= Decided.generatedAt + MinutesPerWeek
              /\ LocalHourOfWeek(Decided.recommendedAt, contact.timezone) =
                    Decided.recommendedHour]_vars

\* C22: with a last send at T, a reference time before T + 24h gives
\* throttled = true and an instant not before T + 24h, a reference time from
\* T + 24h on gives throttled = false, and the hour is the one the histograms
\* give whatever the last send.
C22_Cooldown ==
    [][Recorded =>
        LET contact == contacts[Decided.contact]
            T == contact.lastMessageSentAt
        IN  T # Null =>
              /\ Decided.generatedAt < T + ONE_DAY_MIN =>
                    /\ Decided.throttled
                    /\ Decided.recommendedAt >= T + ONE_DAY_MIN
              /\ Decided.generatedAt >= T + ONE_DAY_MIN => ~Decided.throttled
              /\ Decided.recommendedHour =
                    pickBestHour(SelectedHistogram, UsedData.global).hour]_vars

----------------------------------------------------------------------------
(* Properties of hygiene scoring and the hygiene sweep *)

\* A sweep commits its transaction in this step.
Committed == sweep.pc = "loaded" /\ sweep'.pc = "idle"

\* The evaluation rows the committing sweep writes.
Written == SubSeq(evaluations', Len(evaluations) + 1, Len(evaluations'))

\* The rows the committing sweep writes for contact c.
RowsOf(c) == { i \in DOMAIN Written : Written[i].contact = c }

HighStatuses == {"BOUNCED", "COMPLAINED", "SUPPRESSED"}

StatusScore(status) ==
    CASE status = "BOUNCED" -> 95 [] status = "COMPLAINED" -> 98 [] OTHER -> 90

StatusReason(status) ==
    CASE status = "BOUNCED" -> "Hard bounce detected"
      [] status = "COMPLAINED" -> "Complaint reported"
      [] OTHER -> "Contact already suppressed"

\* The instant lies more than days days before now; a contact without the
\* instant counts as infinitely stale.
Stale(now, t, days) == t = Null \/ now - t > days * ONE_DAY_MIN

\* C23: a contact whose status is BOUNCED, COMPLAINED or SUPPRESSED scores
\* HIGH with 95, 98 or 90, whatever its timestamps and propensity: the only
\* reason is the one of its status (plus the safeguard's for a synthetic
\* contact), and shouldSuppress is true unless the contact is synthetic.
\* The same holds of the row a sweep writes for it.
C23_HighStatuses ==
    [][Committed =>
        \A c \in sweep.loaded :
            LET contact == sweep.contacts[c]
                synthetic == "synthetic" \in contact.tags
                result == computeHygieneScore(contact, sweep.now)
            IN  contact.status \in HighStatuses =>
                  /\ result.riskLevel = "HIGH"
                  /\ result.score = StatusScore(contact.status)
                  /\ result.shouldSuppress = ~synthetic
                  /\ \A i \in DOMAIN result.reasons :
                        result.reasons[i] \in {StatusReason(contact.status),
                                               "Synthetic contact safeguard"}
                  /\ (~synthetic) => result.reasons = << StatusReason(contact.status) >>
                  /\ \A i \in RowsOf(c) :
                        /\ Written[i].riskLevel = "HIGH"
                        /\ Written[i].score = StatusScore(contact.status)
                        /\ Written[i].reasons = result.reasons
                        /\ Written[i].suppressed =
                              (~synthetic /\ sweep.suppressHighRisk # "false")]_vars

\* A contact that complained, with a low propensity, no event ever and a last
\* send more than 90 days before the sweep, was evaluated at 98 for the one
\* reason of its status and marked for suppression.
C23_Witness ==
    \E i \in DOMAIN evaluations, now \in ScoreTimes :
        LET contact == contacts[evaluations[i].contact]
        IN  /\ evaluations[i].score = 98
            /\ evaluations[i].reasons = << "Complaint reported" >>
            /\ evaluations[i].suppressed
            /\ contact.propensity = 5
            /\ contact.lastEventAt = Null
            /\ contact.lastMessageSentAt # Null
            /\ Stale(now, contact.lastMessageSentAt, STALE_SEND_THRESHOLD_DAYS)

\* The suppression rows the step adds.
Added == SubSeq(suppressions', Len(suppressions) + 1, Len(suppressions'))

\* C24: a synthetic contact whose risk resolves to HIGH gets the tier and the
\* score of a contact that differs from it only in the synthetic tag, the
\* same reasons followed by "Synthetic contact safeguard", and
\* shouldSuppress = false; and no step of a sweep, with any option, changes
\* the status of a synthetic contact or adds a Suppression record for it.
C24_SyntheticSafeguard ==
    [][/\ Committed =>
            \A c \in sweep.loaded :
                LET contact == sweep.contacts[c]
                    result == computeHygieneScore(contact, sweep.now)
                    plain == computeHygieneScore(
                                 [contact EXCEPT !.tags = @ \ {"synthetic"}], sweep.now)
                IN  ("synthetic" \in contact.tags /\ result.riskLevel = "HIGH") =>
                      /\ plain.riskLevel = "HIGH"
                      /\ result.score = plain.score
                      /\ result.reasons = Append(plain.reasons, "Synthetic contact safeguard")
                      /\ ~result.shouldSuppress
                      /\ \A i \in RowsOf(c) :
                            /\ Written[i].riskLevel = "HIGH"
                            /\ Written[i].score = plain.score
                            /\ ~Written[i].suppressed
       /\ \A c \in DOMAIN contacts :
            "synthetic" \in contacts[c].tags =>
                /\ contacts'[c].status = contacts[c].status
                /\ \A i \in DOMAIN Added : Added[i].contact # c]_vars

\* A synthetic contact that complained was evaluated at HIGH/98 with the
\* safeguard's reason, is still COMPLAINED and has no Suppression record.
C24_Witness ==
    \E i \in DOMAIN evaluations :
        LET c == evaluations[i].contact
        IN  /\ "synthetic" \in contacts[c].tags
            /\ contacts[c].status = "COMPLAINED"
            /\ contacts[c].hygieneRiskLevel = "HIGH"
            /\ evaluations[i].score = 98
            /\ evaluations[i].reasons = << "Complaint reported", "Synthetic contact safeguard" >>
            /\ ~evaluations[i].suppressed
            /\ \A j \in DOMAIN suppressions : suppressions[j].contact # c

MaxOf(S) == CHOOSE x \in S : \A y \in S : x >= y

\* C25: an ACTIVE contact is MEDIUM exactly when its last send is more than
\* 90 days old (or missing), its last event is more than 60 days old (or
\* missing), or its propensity lies strictly between 0 and 0.15, and LOW
\* otherwise; its score is the greatest of 20 and the 65, 55, 50 of the checks
\* that fired, except that a LOW contact with propensity >= 0.15 and a last
\* event less than 60 days old scores 25 for "Healthy engagement"; the
\* reasons come in the order send, event, propensity; the result is never
\* HIGH and never advises suppression.  The row a sweep writes says the same.
C25_ActivePolicy ==
    [][Committed =>
        \A c \in sweep.loaded :
            LET contact == sweep.contacts[c]
                result == computeHygieneScore(contact, sweep.now)
                p == IF contact.propensity = Null THEN 0 ELSE contact.propensity
                send == Stale(sweep.now, contact.lastMessageSentAt, 90)
                event == Stale(sweep.now, contact.lastEventAt, 60)
                low == 0 < p /\ p < 15
                fired == send \/ event \/ low
                healthy == /\ ~fired
                           /\ p >= 15
                           /\ contact.lastEventAt # Null
                           /\ sweep.now - contact.lastEventAt < 60 * ONE_DAY_MIN
            IN  contact.status = "ACTIVE" =>
                  /\ result.riskLevel = (IF fired THEN "MEDIUM" ELSE "LOW")
                  /\ result.score =
                        IF healthy THEN 25
                        ELSE MaxOf({20} \cup (IF send THEN {65} ELSE { })
                                        \cup (IF event THEN {55} ELSE { })
                                        \cup (IF low THEN {50} ELSE { }))
                  /\ result.reasons =
                        (IF send THEN << "No sends in last 90 days" >> ELSE << >>) \o
                        (IF event THEN << "No engagement events in last 60 days" >> ELSE << >>) \o
                        (IF low THEN << "Low propensity segment" >> ELSE << >>) \o
                        (IF healthy THEN << "Healthy engagement" >> ELSE << >>)
                  /\ ~result.shouldSuppress
                  /\ \A i \in RowsOf(c) :
                        /\ Written[i].riskLevel = result.riskLevel
                        /\ Written[i].score = result.score
                        /\ Written[i].reasons = result.reasons
                        /\ ~Written[i].suppressed
                  /\ contacts'[c].status = "ACTIVE"]_vars

\* An ACTIVE contact whose last event is exactly 60 days old and whose last
\* send is exactly 90 days old, with propensity 0.15, was evaluated LOW at 20
\* without a reason: neither stale nor healthy.
C25_Witness ==
    \E i \in DOMAIN evaluations, now \in ScoreTimes :
        LET contact == contacts[evaluations[i].contact]
        IN  /\ contact.status = "ACTIVE"
            /\ contact.lastEventAt = now - 60 * ONE_DAY_MIN
            /\ contact.lastMessageSentAt = now - 90 * ONE_DAY_MIN
            /\ contact.propensity = 15
            /\ evaluations[i].riskLevel = "LOW"
            /\ evaluations[i].score = 20
            /\ evaluations[i].reasons = << >>

\* The Suppression records of contact c with the reason of the sweep.
HygieneRecords(c) ==
    { i \in DOMAIN suppressions :
        /\ suppressions[i].contact = c
        /\ suppressions[i].reason = HYGIENE_SUPPRESSION_REASON }

\* The evaluation rows of contact c.
EvaluationsOf(c) == { i \in DOMAIN evaluations : evaluations[i].contact = c }

\* C26: whatever sweeps have run one after another, with nothing else writing
\* contact status, no contact has two Suppression records with the reason
\* "hygiene-risk".
C26_OneHygieneRecord ==
    \A c \in DOMAIN contacts : Cardinality(HygieneRecords(c)) <= 1

\* Two sweeps have both evaluated a contact as to be suppressed, and it has
\* its one "hygiene-risk" record.
C26_Witness ==
    \E c \in DOMAIN contacts :
        /\ Cardinality({ i \in EvaluationsOf(c) : evaluations[i].suppressed }) >= 2
        /\ Cardinality(HygieneRecords(c)) = 1
        /\ sweep.pc = "idle"

\* The step changes the status of contact c to SUPPRESSED.
Transition(c) == contacts[c].status # "SUPPRESSED" /\ contacts'[c].status = "SUPPRESSED"

\* The step adds a Suppression record for contact c.
Creates(c) == \E i \in DOMAIN Added : Added[i].contact = c

\* The sweep is to suppress contact c: the score advises it and the option
\* does not forbid it.
ToSuppress(c) ==
    /\ computeHygieneScore(sweep.contacts[c], sweep.now).shouldSuppress
    /\ sweep.suppressHighRisk # "false"

\* What every sweep does about status, whether or not the contact was
\* SUPPRESSED before: a transition needs the advice, the option and a contact
\* not yet SUPPRESSED; contactsSuppressed counts the transitions; with the
\* option false nothing is suppressed.
StatusRule ==
    /\ \A c \in sweep.loaded :
          /\ Transition(c) => (ToSuppress(c) /\ sweep.contacts[c].status # "SUPPRESSED")
          /\ sweep.contacts[c].status = "SUPPRESSED" => contacts'[c].status = "SUPPRESSED"
    /\ sweep'.summary.contactsSuppressed =
          Cardinality({ c \in sweep.loaded : Transition(c) })
    /\ sweep.suppressHighRisk = "false" =>
          /\ \A c \in DOMAIN contacts : contacts'[c].status = contacts[c].status
          /\ Added = << >>

\* C27 as stated: a sweep sets the status and creates the "hygiene-risk"
\* record only for a contact to suppress that is not already SUPPRESSED; for
\* a contact already SUPPRESSED there is no transition, no count and no
\* record; with suppressHighRisk = false nothing is changed or created.
C27_NothingForSuppressed ==
    [][Committed =>
        /\ StatusRule
        /\ \A c \in sweep.loaded :
              Creates(c) => (ToSuppress(c) /\ sweep.contacts[c].status # "SUPPRESSED")]_vars

\* C27, amended: the status rule stands, and the "hygiene-risk" record is
\* created exactly for the contacts to suppress that have no such record
\* yet, also when the contact is already SUPPRESSED.
C27_RecordUnlessPresent ==
    [][Committed =>
        /\ StatusRule
        /\ \A c \in sweep.loaded :
              Creates(c) <=> (ToSuppress(c) /\ HygieneRecords(c) = { })]_vars

\* The last sweep met a contact that a webhook had suppressed: it counted no
\* transition and created the contact's "hygiene-risk" record.
C27_Witness ==
    \E c \in DOMAIN contacts :
        /\ \E i \in DOMAIN suppressions :
              suppressions[i].contact = c /\ suppressions[i].source = "webhook"
        /\ suppressions[Len(suppressions)] =
              [contact |-> c, reason |-> HYGIENE_SUPPRESSION_REASON, source |-> "system"]
        /\ contacts[c].status = "SUPPRESSED"
        /\ sweep.pc = "idle"
        /\ sweep.summary.contactsSuppressed = 0
        /\ sweep.summary.suppressionsCreated = 1

\* C28: a sweep writes exactly one evaluation row for each contact it
\* processes and for no other, whether or not anything about the contact
\* changes, and its summary has evaluated = highRisk + mediumRisk + lowRisk =
\* the number of rows written; no other step writes a row.
C28_OneRowPerContact ==
    [][/\ Committed =>
            /\ \A c \in sweep.loaded : Cardinality(RowsOf(c)) = 1
            /\ \A i \in DOMAIN Written : Written[i].contact \in sweep.loaded
            /\ sweep'.summary.evaluated = Len(Written)
            /\ sweep'.summary.evaluated = sweep'.summary.highRisk
                   + sweep'.summary.mediumRisk + sweep'.summary.lowRisk
            /\ \A level \in {"HIGH", "MEDIUM", "LOW"} :
                  Cardinality({ i \in DOMAIN Written : Written[i].riskLevel = level }) =
                      CASE level = "HIGH" -> sweep'.summary.highRisk
                        [] level = "MEDIUM" -> sweep'.summary.mediumRisk
                        [] OTHER -> sweep'.summary.lowRisk
       /\ ~Committed => evaluations' = evaluations]_vars

\* Two sweeps over all contacts, neither suppressing: the second found every
\* risk field up to date and changed nothing, and each contact has its two
\* rows.
C28_Witness ==
    /\ sweep.pc = "idle"
    /\ sweep.summary.evaluated = Len(SweepContacts)
    /\ \A c \in DOMAIN contacts :
          /\ Cardinality(EvaluationsOf(c)) = 2
          /\ contacts[c].status = SweepContacts[c].status
          /\ contacts[c].hygieneRiskLevel # ""

\* The contacts of the list whose spec has the given status.
ListContacts(status) ==
    { k \in DOMAIN generateTestContactSpecs : generateTestContactSpecs[k].status = status }

\* The committing sweep has suppressHighRisk = true and read the whole test
\* list, each contact with the status of its spec.
SweepsTestList ==
    /\ Committed
    /\ sweep.suppressHighRisk = "true"
    /\ sweep.loaded = DOMAIN generateTestContactSpecs
    /\ \A k \in sweep.loaded : sweep.contacts[k].status = generateTestContactSpecs[k].status

\* C29 as stated: one sweep with suppressHighRisk = true over the test list
\* of 200 ACTIVE, 20 BOUNCED, 5 SUPPRESSED and 3 COMPLAINED contacts reports
\* contactsSuppressed = 20, the BOUNCED contacts only, and highRisk >= 28.
C29_BouncedOnly ==
    [][SweepsTestList =>
        /\ Cardinality(ListContacts("ACTIVE")) = 200
        /\ Cardinality(ListContacts("BOUNCED")) = 20
        /\ Cardinality(ListContacts("SUPPRESSED")) = 5
        /\ Cardinality(ListContacts("COMPLAINED")) = 3
        /\ sweep'.summary.contactsSuppressed = 20
        /\ { c \in sweep.loaded : Transition(c) } = ListContacts("BOUNCED")
        /\ sweep'.summary.highRisk >= 28]_vars

\* C29, amended: the sweep reports contactsSuppressed = 23, the 20 BOUNCED
\* and the 3 COMPLAINED contacts; the 5 already SUPPRESSED are not counted;
\* highRisk >= 28.
C29_BouncedAndComplained ==
    [][SweepsTestList =>
        /\ Cardinality(ListContacts("ACTIVE")) = 200
        /\ Cardinality(ListContacts("BOUNCED")) = 20
        /\ Cardinality(ListContacts("SUPPRESSED")) = 5
        /\ Cardinality(ListContacts("COMPLAINED")) = 3
        /\ sweep'.summary.contactsSuppressed = 23
        /\ { c \in sweep.loaded : Transition(c) } =
              ListContacts("BOUNCED") \cup ListContacts("COMPLAINED")
        /\ sweep'.summary.highRisk >= 28]_vars

\* The first sweep over the new list has returned: 228 evaluated, 28 of them
\* HIGH, 23 contacts suppressed, and every contact of the list that had
\* bounced or complained is now SUPPRESSED.
C29_Witness ==
    /\ sweep.pc = "idle"
    /\ Len(evaluations) = 228
    /\ sweep.summary.evaluated = 228
    /\ sweep.summary.highRisk = 28
    /\ sweep.summary.contactsSuppressed = 23
    /\ \A k \in ListContacts("BOUNCED") \cup ListContacts("COMPLAINED") :
          contacts[k].status = "SUPPRESSED"

----------------------------------------------------------------------------
(* Properties of the tick summary *)

\* The runs of the batch of tick p.
BatchIds(p) == { tick[p].batch[i].id : i \in DOMAIN tick[p].batch }

\* C30: when processDueFlowRuns is about to return, its counters agree with
\* the stored runs of its batch: completed counts those COMPLETED, cancelled
\* those CANCELLED (also when cancelled in the send step), rescheduled those
\* WAITING for a later instant, failed those FAILED, and evaluated is the sum
\* of the four.
C30_CountersAgree ==
    \A p \in TickProcs :
        (tick[p].pc = "running" /\ tick[p].idx > Len(tick[p].batch)) =>
            LET summary == tick[p].summary
                count(status) == Cardinality({ r \in BatchIds(p) : runs[r].status = status })
            IN  /\ summary.completed = count("COMPLETED")
                /\ summary.cancelled = count("CANCELLED")
                /\ summary.rescheduled =
                      Cardinality({ r \in BatchIds(p) :
                          runs[r].status = "WAITING" /\ runs[r].scheduledAt > tick[p].now })
                /\ summary.failed = count("FAILED")
                /\ summary.evaluated = summary.completed + summary.rescheduled
                                          + summary.cancelled + summary.failed

----------------------------------------------------------------------------
(* Properties of the step walk *)

\* The order of the step at which the current step of tick 1 ended its walk.
LastVisited == tick'[1].last.visited[Len(tick'[1].last.visited)]

\* C31: when a SEND_TEMPLATE step completes a run, by a scheduled message or
\* an immediate send, the stored nextStepOrder is the next-step selection
\* applied to the order of that SEND_TEMPLATE step, hence greater than it,
\* also when the tick passed other steps before it came to the send step.
C31_PointerPastSendStep ==
    [][(AtSendStep /\ runs'[CurrentRun.id].status = "COMPLETED") =>
          /\ runs'[CurrentRun.id].nextStepOrder = NextAfter(CurrentRun.flow, LastVisited)
          /\ runs'[CurrentRun.id].nextStepOrder > LastVisited]_vars

\* The orders of the walker's steps that are greater than p.
Greater(p) == { walker.flow.steps[i].order : i \in DOMAIN walker.flow.steps } \cap
              { o \in WalkOrders : o > p }

\* The type of the step the walker's pointer is on, "" when on none.
TypeAtPointer ==
    IF \E i \in DOMAIN walker.flow.steps : walker.flow.steps[i].order = walker.pointer
    THEN walker.flow.steps[CHOOSE i \in DOMAIN walker.flow.steps :
             /\ walker.flow.steps[i].order = walker.pointer
             /\ \A j \in 1..(i - 1) : walker.flow.steps[j].order # walker.pointer].type
    ELSE ""

\* C32: for a step list with gaps in its orders, stored in any order, the
\* next-step selection from any pointer is the smallest order greater than
\* the pointer, and pointer + 1 when there is none; and an iteration on a
\* step that is not a DELAY, SEGMENT_FILTER or SEND_TEMPLATE does nothing
\* but move the pointer to this selection and go on.
C32_NextStepSelection ==
    [][walker.pc = "looping" =>
        /\ \A p \in WalkPointers :
              LET next == getNextOrder(p, walker.flow.steps)
              IN  IF Greater(p) = { } THEN next = p + 1
                  ELSE next \in Greater(p) /\ \A o \in Greater(p) : next <= o
        /\ TypeAtPointer \notin {"", "DELAY", "SEGMENT_FILTER", "SEND_TEMPLATE"} =>
              /\ walker'.pc = "looping"
              /\ walker'.pointer = (IF Greater(walker.pointer) = { } THEN walker.pointer + 1
                                    ELSE Min(Greater(walker.pointer)))
              /\ walker'.flow = walker.flow
              /\ <<runs, contacts, membership, messages>>' = <<runs, contacts, membership, messages>>]_vars

\* The walk started on a TRIGGER stored after the step of the next order,
\* and has moved from the TRIGGER to that step.
C32_Witness ==
    /\ Len(walker.flow.steps) = 2
    /\ walker.flow.steps[1].order = 4
    /\ walker.flow.steps[2].order = 3
    /\ walker.flow.steps[2].type = "TRIGGER"
    /\ walker.start = 3
    /\ walker.visited = << 3 >>
    /\ walker.pointer = 4
    /\ walker.iterations = 1

\* C37: processing one run terminates for every finite step list and every
\* pointer: an iteration of the loop either ends the processing or leaves
\* the pointer strictly greater, and the loop never makes more iterations
\* than the number of steps plus one.
C37_LoopTerminates ==
    [][walker.pc = "looping" =>
        /\ walker'.pc # "looping" \/ walker'.pointer > walker.pointer
        /\ walker'.iterations <= Len(walker.flow.steps) + 1]_vars

\* The loop passed over every step of a list of two or more steps
\* and ended beyond the last one, in as many iterations as the bound allows.
C37_Witness ==
    /\ walker.pc = "end"
    /\ Len(walker.flow.steps) >= 2
    /\ walker.iterations = Len(walker.flow.steps) + 1
    /\ Len(walker.visited) = Len(walker.flow.steps)

----------------------------------------------------------------------------
(* Properties of event ingestion *)

\* The runs that this step appends.
NewRuns == SubSeq(runs', Len(runs) + 1, Len(runs'))

\* The contact exists, has an email address and is ACTIVE.
CanEnter(c) == c \in DOMAIN contacts /\ contacts[c].email /\ contacts[c].status = "ACTIVE"

\* The orders of the steps of flow f that are not a TRIGGER.
ActionOrders(f) ==
    { Flows[f].steps[i].order : i \in { j \in DOMAIN Flows[f].steps :
                                            Flows[f].steps[j].type # "TRIGGER" } }

\* What an ingestion of event e of contact c at instant t has done.
Ingested(c, e, t) ==
    /\ SubSeq(runs', 1, Len(runs)) = runs
    /\ ~CanEnter(c) => NewRuns = << >>
    /\ \A i \in DOMAIN NewRuns :
          /\ NewRuns[i].contact = c
          /\ Flows[NewRuns[i].flow].status = "ACTIVE"
          /\ Flows[NewRuns[i].flow].triggerEventName = e
          /\ NewRuns[i].status = "PENDING"
          /\ NewRuns[i].scheduledAt = t
          /\ NewRuns[i].nextStepOrder \in ActionOrders(NewRuns[i].flow)
          /\ \A o \in ActionOrders(NewRuns[i].flow) : NewRuns[i].nextStepOrder <= o
          /\ \A j \in DOMAIN NewRuns : NewRuns[j].flow = NewRuns[i].flow => j = i
    /\ \A f \in FlowIds :
          /\ ActionOrders(f) = { } => \A i \in DOMAIN NewRuns : NewRuns[i].flow # f
          /\ Flows[f].status \in {"DRAFT", "PAUSED"} => \A i \in DOMAIN NewRuns : NewRuns[i].flow # f
    /\ triggerFlowSummary(c, e).createdRuns = Len(NewRuns)
    /\ triggerFlowSummary(c, e).skippedFlows =
          IF CanEnter(c)
          THEN Cardinality({ f \in FlowIds : /\ Flows[f].status = "ACTIVE"
                                             /\ Flows[f].triggerEventName = e
                                             /\ ActionOrders(f) = { } })
          ELSE 0

\* C34: event ingestion creates a run only for a contact that exists, has
\* an email and is ACTIVE, and only for ACTIVE flows triggered by the
\* event's name; a created run is PENDING, scheduled at the event time, with
\* nextStepOrder the lowest order of a step that is not a TRIGGER; a flow
\* without such a step gets no run and is counted as skipped; DRAFT and
\* PAUSED flows never get a run.
C34_IngestionCreatesRuns ==
    [][\A c \in IngestContacts, e \in IngestEvents, t \in IngestTimes :
          triggerFlowsForEvent(c, e, t) => Ingested(c, e, t)]_vars

\* A visit of contact 1 at instant 10 has started flow 3 at its DELAY and
\* skipped flow 5, and events of the other contacts have started nothing.
C34_Witness ==
    /\ Len(runs) = 1
    /\ runs[1].flow = 3
    /\ runs[1].contact = 1
    /\ runs[1].scheduledAt = 10
    /\ runs[1].nextStepOrder = 2
    /\ triggerFlowSummary(1, "visit") = [createdRuns |-> 1, skippedFlows |-> 1]
    /\ triggerFlowSummary(3, "visit") = [createdRuns |-> 0, skippedFlows |-> 0]

----------------------------------------------------------------------------
(* Properties of the histogram cache and the decision log *)

\* The cache is younger than 60 seconds at wall-clock instant now.
Fresh(now) ==
    /\ optimizerState.histogramCache # << >>
    /\ now - optimizerState.histogramCache[1].fetchedAt < 1

\* The hour that is best for contact c in the histograms data.
HourFrom(data, c) ==
    LET segment == getSegmentTag(contacts[c].tags)
    IN  pickBestHour(IF usesSegmentHistogram(data, segment)
                     THEN data.segments[segment] ELSE data.global,
                     data.global).hour

\* C35: a recommendation for an ACTIVE contact within 60 seconds of a
\* rebuild and without a reset leaves the cache as it is and takes its hour
\* from the cached histograms, whatever has been recorded since; after a
\* reset, or 60 seconds or more after the rebuild, it rebuilds the
\* histograms from the messages stored now and takes its hour from those.
C35_HistogramCache ==
    [][\A c \in CacheIds, referenceDate \in ReferenceDates, now \in OptimizerClock :
          (contacts[c].status = "ACTIVE" /\ recommendSendTimeCall(c, referenceDate, now)) =>
             IF Fresh(now)
             THEN /\ optimizerState'.histogramCache = optimizerState.histogramCache
                  /\ optimizerState'.last.recommendedHour =
                        HourFrom(optimizerState.histogramCache[1].data, c)
             ELSE /\ optimizerState'.histogramCache =
                        << [data |-> buildHistograms(messages, contacts), fetchedAt |-> now] >>
                  /\ optimizerState'.last.recommendedHour =
                        HourFrom(buildHistograms(messages, contacts), c)]_vars

\* Contact 1 got hour 0 twice, the second time from the cache although a
\* click recorded in between makes hour 2 the best hour of the stored data.
C35_Witness ==
    /\ Len(decisions) = 2
    /\ decisions[1].contact = 1
    /\ decisions[2].contact = 1
    /\ decisions[1].recommendedHour = 0
    /\ decisions[2].recommendedHour = 0
    /\ messages[2].clickedAt # Null
    /\ optimizerState.histogramCache # << >>
    /\ optimizerState.histogramCache[1].data # buildHistograms(messages, contacts)
    /\ HourFrom(buildHistograms(messages, contacts), 1) = 2

\* C36: a call of recommendSendTime that returns a recommended hour adds
\* exactly one OptimizerDecision for its contact, with the hour, score,
\* baseline, throttled flag and instant it returns; a call that returns no
\* hour adds none; and no step changes or removes a record already stored.
C36_OneDecisionPerRecommendation ==
    [][/\ Len(decisions') >= Len(decisions)
       /\ SubSeq(decisions', 1, Len(decisions)) = decisions
       /\ \A c \in CacheIds, referenceDate \in ReferenceDates, now \in OptimizerClock :
             recommendSendTimeCall(c, referenceDate, now) =>
                IF optimizerState'.last.recommendedHour # Null
                THEN /\ Len(decisions') = Len(decisions) + 1
                     /\ decisions'[Len(decisions')].contact = c
                     /\ decisions'[Len(decisions')].recommendedHour =
                           optimizerState'.last.recommendedHour
                     /\ decisions'[Len(decisions')].score = optimizerState'.last.score
                     /\ decisions'[Len(decisions')].baselineScore =
                           optimizerState'.last.baselineScore
                     /\ decisions'[Len(decisions')].throttled = optimizerState'.last.throttled
                     /\ decisions'[Len(decisions')].recommendedAt =
                           optimizerState'.last.recommendedAt
                ELSE decisions' = decisions]_vars

\* Contact 1 has two records, the second from a rebuild after a click and
\* with another hour than the first, which is still as it was written; the
\* last call was for the bounced contact 4 and added nothing.
C36_Witness ==
    /\ Len(decisions) = 2
    /\ decisions[1].contact = 1
    /\ decisions[2].contact = 1
    /\ decisions[1].recommendedHour = 0
    /\ decisions[2].recommendedHour = 2
    /\ optimizerState.last.contact = 4
    /\ optimizerState.last.recommendedHour = Null

----------------------------------------------------------------------------
(* Progress of the runs under repeated ticks *)

\* C38: with ticks of limit 1 run one after another on a clock that never
\* goes back and passes every scheduled time, and finitely many runs
\* created, every run is eventually COMPLETED, CANCELLED or FAILED, so that
\* from some point on all runs are; and the run a tick processes
\* leaves the due set: it is terminal, or WAITING with scheduledAt after
\* the tick's now.
C38_EveryRunFinishes ==
    /\ <>[](\A r \in DOMAIN runs : IsTerminal(runs[r]))
    /\ [][StepOf(1) =>
             \/ IsTerminal(runs'[CurrentRun.id])
             \/ /\ runs'[CurrentRun.id].status = "WAITING"
                /\ runs'[CurrentRun.id].scheduledAt > tick[1].now]_vars

\* Two runs of flows that begin with a DELAY have each been made to wait
\* by a tick of limit 1 and have both been finished by later ticks.
C38_Witness ==
    /\ Len(runs) = 2
    /\ runs[1].flow = 1
    /\ runs[2].flow = 7
    /\ runs[1].scheduledAt > 0
    /\ runs[2].scheduledAt > 0
    /\ runs[1].completedAt # Null
    /\ runs[2].completedAt # Null
    /\ IsTerminal(runs[1])
    /\ IsTerminal(runs[2])

----------------------------------------------------------------------------
(* Properties of the end of the steps *)

\* The pointer at which the loop stands after the steps it has looked at.
EndPointer ==
    IF tick'[1].last.visited = << >> THEN CurrentRun.nextStepOrder
    ELSE NextAfter(CurrentRun.flow, LastVisited)

\* The step of flow f at order lets the loop go on to the next step.
PassesOn(f, order) ==
    CASE TypeAt(f, order) = "DELAY" -> ResolvedMinutes(f, order) <= 0
      [] TypeAt(f, order) = "SEGMENT_FILTER" ->
            \/ ResolvedSegment(f, order) = ""
            \/ <<ResolvedSegment(f, order), CurrentRun.contactId>> \in membership
      [] TypeAt(f, order) = "SEND_TEMPLATE" -> FALSE
      [] OTHER -> TRUE

\* This step of tick 1 finds no step at the pointer of its run, at once or
\* after the steps it passed.
RanOffTheEnd ==
    /\ StepOf(1)
    /\ ~HasStep(CurrentRun.flow, EndPointer)
    /\ tick'[1].last.visited # << >> => PassesOn(CurrentRun.flow, LastVisited)

\* C33: when there is no step at the pointer of a due run, at once or after
\* the tick has moved past the last step, the run becomes COMPLETED with
\* completedAt = now and the pointer as it stands, it is counted as
\* completed, and no message is created or dispatched.
C33_RanOffTheEnd ==
    [][RanOffTheEnd =>
         /\ runs' = [runs EXCEPT ![CurrentRun.id] =
                        [@ EXCEPT !.status = "COMPLETED", !.completedAt = tick[1].now,
                                  !.nextStepOrder = EndPointer]]
         /\ tick'[1].summary = [tick[1].summary EXCEPT !.completed = @ + 1]
         /\ tick'[1].last.result = "completed"
         /\ NothingSent(CurrentRun.id)]_vars

\* A run of flow 7 came back from its DELAY to a pointer without a step,
\* and a run of flow 3 passed its last three steps in one tick; both are
\* COMPLETED with the pointer beyond the steps.
C33_Witness ==
    /\ Len(runs) = 2
    /\ runs[1].flow = 7
    /\ runs[1].status = "COMPLETED"
    /\ runs[1].nextStepOrder = 3
    /\ runs[1].completedAt >= 15
    /\ runs[2].flow = 3
    /\ runs[2].status = "COMPLETED"
    /\ runs[2].nextStepOrder = 8
    /\ runs[2].completedAt >= 30
    /\ Len(messages) = 1

----------------------------------------------------------------------------
(* Properties of the send step beside the other writers of the contact *)

\* C39: no message is dispatched to a contact whose stored status is not
\* ACTIVE at the moment of the dispatch, also when a hygiene sweep or a
\* webhook outcome has changed the status after the tick loaded its batch.
C39_NoDispatchToInactive ==
    [][(OneMessageCreated /\ messages'[Len(messages')].status = "SENT") =>
          contacts[messages'[Len(messages')].contact].status = "ACTIVE"]_vars

----------------------------------------------------------------------------
(* Properties of the send step inside the 24h cooldown *)

\* The end of the cooldown of the contact of the current run of tick 1.
CooldownEnd == contacts[CurrentRun.contactId].lastMessageSentAt + 1440

\* This step of tick 1 runs the send step of an optimizer flow for an ACTIVE
\* contact that was last mailed less than 24 hours before the tick time.
SendInCooldown ==
    /\ AtSendStep
    /\ Flows[CurrentRun.flow].useOptimizer
    /\ contacts[CurrentRun.contactId].status = "ACTIVE"
    /\ contacts[CurrentRun.contactId].lastMessageSentAt # Null
    /\ tick[1].now < CooldownEnd

\* C40 as claimed: a send step of an optimizer flow inside the contact's
\* 24h cooldown never dispatches at once; it creates a SCHEDULED message
\* for an instant at or after the end of the cooldown.
C40_NeverImmediateInCooldown ==
    [][SendInCooldown =>
          /\ OneMessageCreated
          /\ messages'[Len(messages')].status = "SCHEDULED"
          /\ messages'[Len(messages')].scheduledSendAt >= CooldownEnd
          /\ dispatches' = dispatches]_vars

\* C40, amended: inside the cooldown the send step defers exactly when the
\* optimizer call succeeded and its instant lies more than 5 minutes after
\* now; it then creates a SCHEDULED message for that instant without a
\* transport call, and for a contact without a time zone the instant is at
\* or after the end of the cooldown.  When the call failed or its instant
\* is at most 5 minutes ahead, the step dispatches at once.
C40_CooldownDefersWhenScheduled ==
    [][SendInCooldown =>
          IF /\ Len(decisions') = Len(decisions) + 1
             /\ decisions'[Len(decisions')].recommendedAt - tick[1].now > 5
          THEN /\ OneMessageCreated
               /\ messages'[Len(messages')].status = "SCHEDULED"
               /\ messages'[Len(messages')].scheduledSendAt =
                     decisions'[Len(decisions')].recommendedAt
               /\ decisions'[Len(decisions')].throttled
               /\ dispatches' = dispatches
               /\ contacts[CurrentRun.contactId].timezone = "" =>
                     messages'[Len(messages')].scheduledSendAt >= CooldownEnd
          ELSE ImmediateDispatch(CurrentRun.id, CurrentRun.contactId)]_vars

\* Contact 2, without a time zone and 72 minutes short of the end of its
\* cooldown, has a message scheduled for the hour after the cooldown, and
\* nothing was sent to it by the tick.
C40_Witness ==
    /\ contacts[2].lastMessageSentAt = CooldownNow + 72 - 1440
    /\ \E i \in DOMAIN messages :
          /\ messages[i].contact = 2
          /\ messages[i].status = "SCHEDULED"
          /\ messages[i].scheduledSendAt >= CooldownNow + 72
          /\ messages[i].run \in DOMAIN runs
          /\ dispatches[messages[i].run] = 0
    /\ decisions # << >>
    /\ decisions[Len(decisions)].throttled

====
